---- MODULE Spec2Model ----
(***************************************************************************)
(* Model of codfreq's SegFreq engine (codfreq/segfreq.py), the PosNA       *)
(* helpers (codfreq/posnas.py) and the codon re-aligner                    *)
(* (codfreq/codonalign_consensus.py).                                      *)
(*                                                                         *)
(* A Python Counter / dict is modelled as a sequence of [k, v] records in  *)
(* insertion order, because Counter.most_common() breaks ties by insertion *)
(* order.  A PosNA is a record [pos, bp, na]; na is a one-character        *)
(* string.  Python's None slot is the record None.                         *)
(***************************************************************************)
EXTENDS Integers, Sequences, FiniteSets, TLC

VARIABLES
    segment_size,   \* SegFreq.segment_size
    segment_step,   \* SegFreq.segment_step
    segments,       \* SegFreq._segments : pos -> Counter of segments
    max_segpos,     \* SegFreq._max_segpos
    ret,            \* the last call on the SegFreq and what it returned
    codonstat,      \* codonstat_by_fragpos : (fragment, aapos) -> Counter
    qualities,      \* qualities_by_fragpos : (fragment, aapos) -> Counter
    fragment,       \* the derived fragment's codon-alignment directive
    cda_calls,      \* number of codonalign_consensus calls made so far
    sidecar,        \* what the .segfreq path of the sample holds
    writer,         \* the file object sam2segfreq_all has open on it
    taskmeta,       \* tasks/<taskKey>/taskmeta.json in the bucket
    requests,       \* the controller's requests in flight for the task
    logs            \* whether the runner's log has its 'done' event

vars == <<segment_size, segment_step, segments, max_segpos, ret,
          codonstat, qualities, fragment, cda_calls,
          sidecar, writer, taskmeta, requests, logs>>

segfreq_vars == <<segment_size, segment_step, segments, max_segpos, ret>>
cda_vars == <<codonstat, qualities, fragment, cda_calls>>
env_vars == <<sidecar, writer, taskmeta, requests, logs>>

----------------------------------------------------------------------------
(* Bounds of the model *)

MaxAdds == 2        \* distinct segments held by one SegFreq
MaxPos == 6         \* largest reference position queried
MaxReads == 3       \* codon observations counted before re-alignment
MaxPositions == 4   \* reference positions covered by a trimmed segment
FragmentCodons == 4 \* codons in a fragment handed to codon_align
MaxRequests == 3    \* invocations of the controller in flight at once
MaxCdaCalls == 2    \* successive codonalign_consensus calls
NumAA == 2          \* codons in the derived fragment (refsize // 3)

----------------------------------------------------------------------------
(* Generic helpers *)

Range(s) == {s[i] : i \in DOMAIN s}

Min(S) == CHOOSE x \in S : \A y \in S : x <= y
Max(S) == CHOOSE x \in S : \A y \in S : x >= y

RECURSIVE SumSeq(_)
SumSeq(s) == IF s = <<>> THEN 0 ELSE Head(s) + SumSeq(Tail(s))

RECURSIVE Concat(_)
Concat(ss) == IF ss = <<>> THEN <<>> ELSE Head(ss) \o Concat(Tail(ss))

(* Python Counter as an insertion-ordered sequence of [k, v] *)
CKeys(c) == {c[i].k : i \in DOMAIN c}
CHas(c, key) == key \in CKeys(c)
CGet(c, key) ==
    IF CHas(c, key)
    THEN LET i == CHOOSE j \in DOMAIN c : c[j].k = key IN c[i].v
    ELSE 0
CSet(c, key, val) ==
    IF CHas(c, key)
    THEN [i \in DOMAIN c |-> IF c[i].k = key THEN [k |-> key, v |-> val]
                                              ELSE c[i]]
    ELSE Append(c, [k |-> key, v |-> val])
CAdd(c, key, n) == CSet(c, key, CGet(c, key) + n)
CDel(c, key) == SelectSeq(c, LAMBDA e : e.k # key)
CTotal(c) == SumSeq([i \in DOMAIN c |-> c[i].v])
CDict(c) == [key \in CKeys(c) |-> CGet(c, key)]

(* Counter.most_common(): sorted by count, descending, stable *)
RECURSIVE InsertDesc(_, _)
InsertDesc(sorted, e) ==
    IF sorted = <<>> THEN <<e>>
    ELSE IF Head(sorted).v >= e.v
         THEN <<Head(sorted)>> \o InsertDesc(Tail(sorted), e)
         ELSE <<e>> \o sorted
RECURSIVE most_common(_)
most_common(c) ==
    IF c = <<>> THEN <<>>
    ELSE InsertDesc(most_common(SubSeq(c, 1, Len(c) - 1)), c[Len(c)])

----------------------------------------------------------------------------
(* PosNA and segments *)

None == [pos |-> 0, bp |-> 0, na |-> "None"]
PosNA(pos, bp, na) == [pos |-> pos, bp |-> bp, na |-> na]
GAP == "-"

(* get_segment_pos raises ValueError when no slot holds a node *)
SegmentIsMalformed(segment) == \A i \in DOMAIN segment : segment[i] = None

get_segment_pos(segment) ==
    LET idx == Min({i \in DOMAIN segment : segment[i] # None})
    IN  segment[idx].pos - (idx - 1)

----------------------------------------------------------------------------
(* SegFreq.__init__ and SegFreq.add *)

SegFreqInit(size, step) ==
    /\ ~(step < 1)
    /\ ~(size - step < 2)
    /\ segment_size = size
    /\ segment_step = step
    /\ segments = <<>>
    /\ max_segpos = 0
    /\ ret = [op |-> "__init__", args |-> <<size, step>>,
              status |-> "ok", value |-> None]

SegmentsAt(pos) == IF pos \in DOMAIN segments THEN segments[pos] ELSE <<>>

RECURSIVE SumOver(_, _)
SumOver(f, S) ==
    IF S = {} THEN 0
    ELSE LET x == CHOOSE y \in S : TRUE IN f[x] + SumOver(f, S \ {x})

NumEntries == SumOver([p \in DOMAIN segments |-> Len(segments[p])],
                      DOMAIN segments)

add(segment, count) ==
    LET pos == get_segment_pos(segment) IN
    /\ ~SegmentIsMalformed(segment)
    /\ segments' = [p \in DOMAIN segments \cup {pos} |->
                      IF p = pos THEN CAdd(SegmentsAt(pos), segment, count)
                                 ELSE segments[p]]
    /\ max_segpos' = IF max_segpos > pos THEN max_segpos ELSE pos
    /\ ret' = [op |-> "add", args |-> <<>>, status |-> "ok", value |-> None]
    /\ UNCHANGED <<segment_size, segment_step>>

----------------------------------------------------------------------------
(* SegFreq.get_frequency *)

RECURSIVE PadPositions(_, _)
PadPositions(positions, na_size) ==
    IF Len(positions) < na_size
    THEN PadPositions(Append(positions, positions[Len(positions)] + 1),
                      na_size)
    ELSE positions

FrequencySegpos(positions) ==
    LET segpos0 == Min(Range(positions))
        segpos1 == segpos0 - ((segpos0 - 1) % segment_step)
    IN  IF segpos1 > max_segpos THEN max_segpos ELSE segpos1

TooFarApart_OffByOne(positions) ==
    LET segpos == FrequencySegpos(positions) IN
    \E i \in DOMAIN positions :
        /\ ~(positions[i] >= max_segpos + segment_size)
        /\ (positions[i] < segpos \/ positions[i] > segpos + segment_size)

TooFarApart(positions) ==
    LET segpos == FrequencySegpos(positions) IN
    \E i \in DOMAIN positions :
        /\ ~(positions[i] >= max_segpos + segment_size)
        /\ (positions[i] < segpos \/ positions[i] >= segpos + segment_size)

(* the inner `for node in segment` loop for one requested position: the   *)
(* nodes at pos that come before the first node lying beyond pos          *)
RECURSIVE NodesAt(_, _)
NodesAt(segment, pos) ==
    IF segment = <<>> THEN <<>>
    ELSE LET node == Head(segment) IN
         IF node # None /\ node.pos = pos
         THEN <<node.na>> \o NodesAt(Tail(segment), pos)
         ELSE IF node # None /\ node.pos > pos
              THEN <<>>
              ELSE NodesAt(Tail(segment), pos)

Skip == <<"skip">>

(* nas of one segment, or Skip when a requested position is unobserved *)
RECURSIVE SegmentNAs(_, _)
SegmentNAs(segment, positions) ==
    IF positions = <<>> THEN <<>>
    ELSE LET here == NodesAt(segment, Head(positions)) IN
         IF here = <<>> THEN Skip
         ELSE LET rest == SegmentNAs(segment, Tail(positions)) IN
              IF rest = Skip THEN Skip ELSE here \o rest

RECURSIVE CountNAs_Once(_, _, _)
CountNAs_Once(pos_segments, positions, nas_counts) ==
    IF pos_segments = <<>> THEN nas_counts
    ELSE LET nas == SegmentNAs(Head(pos_segments).k, positions) IN
         CountNAs_Once(Tail(pos_segments), positions,
                       IF nas = Skip THEN nas_counts
                       ELSE CAdd(nas_counts, nas, 1))

RECURSIVE CountNAs(_, _, _)
CountNAs(pos_segments, positions, nas_counts) ==
    IF pos_segments = <<>> THEN nas_counts
    ELSE LET nas == SegmentNAs(Head(pos_segments).k, positions) IN
         CountNAs(Tail(pos_segments), positions,
                  IF nas = Skip THEN nas_counts
                  ELSE CAdd(nas_counts, nas, Head(pos_segments).v))

get_frequency_result(positions0, na_size) ==
    LET positions == PadPositions(positions0, na_size) IN
    IF TooFarApart(positions)
    THEN [op |-> "get_frequency", args |-> <<positions0, na_size>>,
          status |-> "ValueError", value |-> None]
    ELSE [op |-> "get_frequency", args |-> <<positions0, na_size>>,
          status |-> "ok",
          value |-> CDict(CountNAs(SegmentsAt(FrequencySegpos(positions)),
                                   positions, <<>>))]

get_frequency(positions, na_size) ==
    /\ ret' = get_frequency_result(positions, na_size)
    /\ UNCHANGED <<segment_size, segment_step, segments, max_segpos>>

----------------------------------------------------------------------------
(* SegFreq.get_pos_nas *)

PosNasSegpos(pos) ==
    LET segpos == pos - ((pos - 1) % segment_step) IN
    IF segpos > max_segpos THEN max_segpos ELSE segpos

AllNodesAt(segment, pos) ==
    LET hits == SelectSeq(segment, LAMBDA node : node # None /\ node.pos = pos)
    IN  [i \in DOMAIN hits |-> hits[i].na]

RECURSIVE CountPosNas_Overwrite(_, _, _)
CountPosNas_Overwrite(pos_segments, pos, na_counts) ==
    IF pos_segments = <<>> THEN na_counts
    ELSE LET nas == AllNodesAt(Head(pos_segments).k, pos) IN
         CountPosNas_Overwrite(Tail(pos_segments), pos,
                               IF nas # <<>>
                               THEN CSet(na_counts, nas, Head(pos_segments).v)
                               ELSE na_counts)

RECURSIVE CountPosNas(_, _, _)
CountPosNas(pos_segments, pos, na_counts) ==
    IF pos_segments = <<>> THEN na_counts
    ELSE LET nas == AllNodesAt(Head(pos_segments).k, pos) IN
         CountPosNas(Tail(pos_segments), pos,
                     IF nas # <<>>
                     THEN CAdd(na_counts, nas, Head(pos_segments).v)
                     ELSE na_counts)

get_pos_nas_result(pos) ==
    [op |-> "get_pos_nas", args |-> <<pos>>, status |-> "ok",
     value |-> CDict(CountPosNas(SegmentsAt(PosNasSegpos(pos)), pos, <<>>))]

get_pos_nas(pos) ==
    /\ ret' = get_pos_nas_result(pos)
    /\ UNCHANGED <<segment_size, segment_step, segments, max_segpos>>

----------------------------------------------------------------------------
(* merge_posnas (codfreq/posnas.py) and the IUPAC tables *)

(* an exception raised where a PosNA was expected *)
Raised(kind) == [pos |-> -1, bp |-> -1, na |-> kind]
IsRaised(x) == x.pos = -1

AMBIGUOUS_NAS(na) ==
    CASE na = "W" -> {"A", "T"}
      [] na = "S" -> {"C", "G"}
      [] na = "M" -> {"A", "C"}
      [] na = "K" -> {"G", "T"}
      [] na = "R" -> {"A", "G"}
      [] na = "Y" -> {"C", "T"}
      [] na = "B" -> {"C", "G", "T"}
      [] na = "D" -> {"A", "G", "T"}
      [] na = "H" -> {"A", "C", "T"}
      [] na = "V" -> {"A", "C", "G"}
      [] na = "N" -> {"A", "C", "G", "T"}
      [] OTHER -> {na}

REVERSED_AMBIGUOUS_NAS(amb) ==
    CASE amb = {"A", "T"} -> "W"
      [] amb = {"C", "G"} -> "S"
      [] amb = {"A", "C"} -> "M"
      [] amb = {"G", "T"} -> "K"
      [] amb = {"A", "G"} -> "R"
      [] amb = {"C", "T"} -> "Y"
      [] amb = {"C", "G", "T"} -> "B"
      [] amb = {"A", "G", "T"} -> "D"
      [] amb = {"A", "C", "T"} -> "H"
      [] amb = {"A", "C", "G"} -> "V"
      [] amb = {"A", "C", "G", "T"} -> "N"
      [] OTHER -> "KeyError"

merge_posnas_NoGap(posna1, posna2) ==
    IF posna1.pos # posna2.pos THEN Raised("ValueError")
    ELSE IF posna1.bp # posna2.bp THEN Raised("ValueError")
    ELSE IF posna1.na = posna2.na THEN posna1
    ELSE LET amb == AMBIGUOUS_NAS(posna1.na) \cup AMBIGUOUS_NAS(posna2.na)
             na == REVERSED_AMBIGUOUS_NAS(amb)
         IN  IF na = "KeyError" THEN Raised("KeyError")
             ELSE PosNA(posna1.pos, posna1.bp, na)

merge_posnas(posna1, posna2) ==
    IF posna1.pos # posna2.pos THEN Raised("ValueError")
    ELSE IF posna1.bp # posna2.bp THEN Raised("ValueError")
    ELSE IF posna1.na = GAP \/ posna2.na = GAP
         THEN PosNA(posna1.pos, posna1.bp, GAP)
    ELSE IF posna1.na = posna2.na THEN posna1
    ELSE LET amb == AMBIGUOUS_NAS(posna1.na) \cup AMBIGUOUS_NAS(posna2.na)
             na == REVERSED_AMBIGUOUS_NAS(amb)
         IN  IF na = "KeyError" THEN Raised("KeyError")
             ELSE PosNA(posna1.pos, posna1.bp, na)

(* get_consensus unpacks the qualified list into merge_posnas, which      *)
(* takes exactly two positional arguments: any other number of them is a  *)
(* TypeError                                                              *)
merge_posnas_call(qualified) ==
    IF Len(qualified) = 2
    THEN merge_posnas(qualified[1], qualified[2])
    ELSE Raised("TypeError")

----------------------------------------------------------------------------
(* SegFreq.get_consensus; level is given in percent (level = level_pct/100) *)

RECURSIVE PyRange(_, _, _)
PyRange(start, stop, step) ==
    IF step > 0
    THEN IF start >= stop THEN <<>>
         ELSE <<start>> \o PyRange(start + step, stop, step)
    ELSE IF start <= stop THEN <<>>
         ELSE <<start>> \o PyRange(start + step, stop, step)

RECURSIVE ConsensusNodes(_, _, _, _, _, _, _)
ConsensusNodes(nodes, count, total, pos_until, pos_start, pos_end, acc) ==
    IF nodes = <<>> THEN acc
    ELSE LET node == Head(nodes) IN
         IF \/ node = None
            \/ node.pos >= pos_until
            \/ node.pos < pos_start
            \/ node.pos > pos_end
         THEN ConsensusNodes(Tail(nodes), count, total, pos_until,
                             pos_start, pos_end, acc)
         ELSE LET nodekey == <<node.pos, node.bp>>
                  cur == IF CHas(acc.consensus, nodekey)
                         THEN CGet(acc.consensus, nodekey) ELSE <<>>
              IN  ConsensusNodes(
                      Tail(nodes), count, total, pos_until, pos_start, pos_end,
                      [consensus |-> CSet(acc.consensus, nodekey,
                                          CAdd(cur, node, count)),
                       pos_total |-> CSet(acc.pos_total, node.pos, total)])

RECURSIVE ConsensusSegments(_, _, _, _, _, _, _)
ConsensusSegments(sorted, total, pos_until, pos_start, pos_end, level_pct, acc) ==
    IF sorted = <<>> THEN acc
    ELSE LET acc1 == ConsensusNodes(Head(sorted).k, Head(sorted).v, total,
                                    pos_until, pos_start, pos_end, acc)
         IN  IF level_pct >= 100
             THEN acc1   \* only the most common segment is recorded
             ELSE ConsensusSegments(Tail(sorted), total, pos_until,
                                    pos_start, pos_end, level_pct, acc1)

RECURSIVE ConsensusAnchors(_, _, _, _, _)
ConsensusAnchors(anchors, pos_start, pos_end, level_pct, acc) ==
    IF anchors = <<>> THEN acc
    ELSE LET pos == Head(anchors) IN
         ConsensusAnchors(
             Tail(anchors), pos_start, pos_end, level_pct,
             IF pos \in DOMAIN segments
             THEN ConsensusSegments(most_common(segments[pos]),
                                    CTotal(segments[pos]),
                                    pos + segment_step,
                                    pos_start, pos_end, level_pct, acc)
             ELSE acc)

Qualified(posnas, total, level_pct) ==
    LET sorted == most_common(posnas)
        hits == SelectSeq(sorted, LAMBDA e :
                    level_pct >= 100 \/ e.v * 100 >= total * level_pct)
    IN  [i \in DOMAIN hits |-> hits[i].k]

RECURSIVE ConsensusAt(_, _, _, _)
ConsensusAt(pos, bp, level_pct, acc) ==
    IF CHas(acc.consensus, <<pos, bp>>)
    THEN LET qualified == Qualified(CGet(acc.consensus, <<pos, bp>>),
                                    CGet(acc.pos_total, pos), level_pct)
         IN  (IF qualified # <<>> THEN <<merge_posnas_call(qualified)>>
                                  ELSE <<>>)
             \o ConsensusAt(pos, bp + 1, level_pct, acc)
    ELSE <<>>

get_consensus_result(pos_start, pos_end, level_pct) ==
    LET real_pos_start == pos_start - ((pos_start - 1) % segment_step)
        real_pos_end == pos_end - ((pos_end - 1) % segment_step)
        acc == ConsensusAnchors(
                   PyRange(real_pos_start, real_pos_end + 1, segment_step),
                   pos_start, pos_end, level_pct,
                   [consensus |-> <<>>, pos_total |-> <<>>])
        result == Concat([i \in 1..(pos_end - pos_start + 1) |->
                            ConsensusAt(pos_start + i - 1, 0, level_pct, acc)])
        raised == {i \in DOMAIN result : IsRaised(result[i])}
    IN  IF raised # {}
        THEN [op |-> "get_consensus",
              args |-> <<pos_start, pos_end, level_pct>>,
              status |-> result[Min(raised)].na, value |-> None]
        ELSE [op |-> "get_consensus",
              args |-> <<pos_start, pos_end, level_pct>>,
              status |-> "ok", value |-> result]

get_consensus(pos_start, pos_end, level_pct) ==
    /\ ret' = get_consensus_result(pos_start, pos_end, level_pct)
    /\ UNCHANGED <<segment_size, segment_step, segments, max_segpos>>

----------------------------------------------------------------------------
(* remove_first_n_pos, remove_last_n_pos, is_continuous, mask_segment *)

Malformed == <<Raised("ValueError")>>   \* "Segment is malformed" was raised

IsPos(node) == node = None \/ node.bp = 0

RECURSIVE RemoveFirstFrom(_, _, _, _)
RemoveFirstFrom(segment, n, idx, n_count) ==
    IF idx > Len(segment) THEN Malformed
    ELSE LET c == IF IsPos(segment[idx]) THEN n_count + 1 ELSE n_count IN
         IF c > n THEN SubSeq(segment, idx, Len(segment))
         ELSE RemoveFirstFrom(segment, n, idx + 1, c)

(* this variant stops at the n-th position instead of the one after it *)
RECURSIVE RemoveFirstFrom_KeepSlot(_, _, _, _)
RemoveFirstFrom_KeepSlot(segment, n, idx, n_count) ==
    IF idx > Len(segment) THEN Malformed
    ELSE LET c == IF IsPos(segment[idx]) THEN n_count + 1 ELSE n_count IN
         IF c >= n THEN SubSeq(segment, idx, Len(segment))
         ELSE RemoveFirstFrom_KeepSlot(segment, n, idx + 1, c)

remove_first_n_pos_KeepSlot(segment, n) ==
    RemoveFirstFrom_KeepSlot(segment, n, 1, 0)

remove_first_n_pos(segment, n) == RemoveFirstFrom(segment, n, 1, 0)

(* idx counts from the end of the segment, starting at 0 *)
RECURSIVE RemoveLastFrom(_, _, _, _)
RemoveLastFrom(segment, n, idx, n_count) ==
    IF idx >= Len(segment) THEN Malformed
    ELSE LET c == IF IsPos(segment[Len(segment) - idx])
                  THEN n_count + 1 ELSE n_count IN
         IF c = n THEN SubSeq(segment, 1, Len(segment) - idx - 1)
         ELSE RemoveLastFrom(segment, n, idx + 1, c)

RECURSIVE RemoveLastFrom_KeepOne(_, _, _, _)
RemoveLastFrom_KeepOne(segment, n, idx, n_count) ==
    IF idx >= Len(segment) THEN Malformed
    ELSE LET c == IF IsPos(segment[Len(segment) - idx])
                  THEN n_count + 1 ELSE n_count IN
         IF c = n THEN SubSeq(segment, 1, Len(segment) - idx)
         ELSE RemoveLastFrom_KeepOne(segment, n, idx + 1, c)

remove_last_n_pos_KeepOne(segment, n) ==
    RemoveLastFrom_KeepOne(segment, n, 0, 0)

remove_last_n_pos(segment, n) == RemoveLastFrom(segment, n, 0, 0)

(* "ValueError" when one of the two removals raises, else a BOOLEAN as a  *)
(* string                                                                 *)
(* the comparison of the two trimmed segments, or the error raised while  *)
(* trimming                                                               *)
Compared(l, r) ==
    IF l = Malformed \/ r = Malformed THEN "ValueError"
    ELSE IF l = r THEN "True" ELSE "False"

is_continuous(left_segment, right_segment, step) ==
    Compared(remove_first_n_pos(left_segment, step),
             remove_last_n_pos(right_segment, step))

mask_segment(segment, min_pos, max_pos) ==
    [i \in DOMAIN segment |->
        IF segment[i] = None
           \/ (min_pos <= segment[i].pos /\ segment[i].pos <= max_pos)
        THEN segment[i] ELSE None]

----------------------------------------------------------------------------
(* PosNA ordering (PosNA.__lt__) and sorted() *)

NaOrd(na) ==
    CASE na = "-" -> 45
      [] na = "A" -> 65
      [] na = "C" -> 67
      [] na = "G" -> 71
      [] na = "N" -> 78
      [] na = "R" -> 82
      [] na = "T" -> 84
      [] OTHER -> 90

PosNALt(a, b) ==
    \/ a.pos < b.pos
    \/ a.pos = b.pos /\ a.bp < b.bp
    \/ a.pos = b.pos /\ a.bp = b.bp /\ NaOrd(a.na) < NaOrd(b.na)

RECURSIVE SortedNodes(_)
SortedNodes(S) ==
    IF S = {} THEN <<>>
    ELSE LET m == CHOOSE x \in S : \A y \in S \ {x} : PosNALt(x, y)
         IN  <<m>> \o SortedNodes(S \ {m})

----------------------------------------------------------------------------
(* SegFreq.get_patterns.  The loop state st holds the four working        *)
(* counters, the two pattern counters, and `chains`, a record of the      *)
(* chain each seed produced (it does not influence the computation).      *)
(* Fractions are kept in parts per ten thousand, as the code keeps them.  *)

(* the four `+=` of the loading loop, for one masked segment; this        *)
(* variant stores instead of adding                                       *)
PatternsLoadOne_Overwrite(st, pos, segment, count, pcnt) ==
    [st EXCEPT
       !.segments_between_pcnt[pos] = CSet(@, segment, pcnt),
       !.segments_between_ct[pos] = CSet(@, segment, count),
       !.seed_segments_pcnt = CSet(@, <<pos, segment>>, pcnt),
       !.seed_segments_ct = CSet(@, <<pos, segment>>, count)]

(* the four `+=` of the loading loop, for one masked segment *)
PatternsLoadOne(st, pos, segment, count, pcnt) ==
    [st EXCEPT
       !.segments_between_pcnt[pos] = CAdd(@, segment, pcnt),
       !.segments_between_ct[pos] = CAdd(@, segment, count),
       !.seed_segments_pcnt = CAdd(@, <<pos, segment>>, pcnt),
       !.seed_segments_ct = CAdd(@, <<pos, segment>>, count)]

RECURSIVE PatternsLoad(_, _, _, _, _, _)
PatternsLoad(items, pos, total, pos_start, pos_end, st) ==
    IF items = <<>> THEN st
    ELSE PatternsLoad(
             Tail(items), pos, total, pos_start, pos_end,
             PatternsLoadOne(
                 st, pos, mask_segment(Head(items).k, pos_start, pos_end),
                 Head(items).v, (Head(items).v * 10000) \div total))

RECURSIVE PatternsLoadAll(_, _, _, _)
PatternsLoadAll(anchors, pos_start, pos_end, st) ==
    IF anchors = <<>> THEN st
    ELSE PatternsLoadAll(
             Tail(anchors), pos_start, pos_end,
             PatternsLoad(SegmentsAt(Head(anchors)), Head(anchors),
                          CTotal(SegmentsAt(Head(anchors))),
                          pos_start, pos_end, st))

(* what the inner loop does with one candidate, given is_continuous's     *)
(* answer r for it                                                        *)
Candidate(cand, r) ==
    IF r = "ValueError" THEN [found |-> "ValueError"]
    ELSE IF r = "True"
         THEN [found |-> "yes", segment |-> cand.k, pcnt |-> cand.v]
         ELSE [found |-> "no"]

(* the inner `for segment, pcnt in pos_segments.most_common()` loop *)
RECURSIVE FindContinuous(_, _, _)
RECURSIVE FindContinuousFrom(_, _, _, _)
FindContinuousFrom(cands, prev_segment, leftward, first) ==
    IF first.found = "no"
    THEN FindContinuous(Tail(cands), prev_segment, leftward)
    ELSE first

FindContinuous(cands, prev_segment, leftward) ==
    IF cands = <<>> THEN [found |-> "no"]
    ELSE FindContinuousFrom(
             cands, prev_segment, leftward,
             Candidate(Head(cands),
                       IF leftward
                       THEN is_continuous(Head(cands).k, prev_segment,
                                          segment_step)
                       ELSE is_continuous(prev_segment, Head(cands).k,
                                          segment_step)))

(* the chain after a continuous segment was found at pos; this variant    *)
(* keeps the larger count                                                 *)
Extend_Max(chain, pos, f, count) ==
    [chain EXCEPT
       !.selected_segments = Append(@, <<pos, f.segment>>),
       !.pattern_pcnt = IF f.pcnt < @ THEN f.pcnt ELSE @,
       !.pattern_count = IF count > @ THEN count ELSE @]

(* the chain after a continuous segment was found at pos *)
Extend(chain, pos, f, count) ==
    [chain EXCEPT
       !.selected_segments = Append(@, <<pos, f.segment>>),
       !.pattern_pcnt = IF f.pcnt < @ THEN f.pcnt ELSE @,
       !.pattern_count = IF count < @ THEN count ELSE @]

(* one of the two walks away from the seed; f is what the inner loop      *)
(* found at Head(positions)                                               *)
RECURSIVE Walk(_, _, _, _, _)
RECURSIVE WalkOn(_, _, _, _, _)
WalkOn(positions, leftward, st, chain, f) ==
    IF f.found = "ValueError" THEN [chain EXCEPT !.status = "ValueError"]
    ELSE IF f.found = "no" THEN chain
    ELSE Walk(Tail(positions), f.segment, leftward, st,
              Extend(chain, Head(positions), f,
                     CGet(st.segments_between_ct[Head(positions)],
                          f.segment)))

Walk(positions, prev_segment, leftward, st, chain) ==
    IF positions = <<>> THEN chain
    ELSE WalkOn(positions, leftward, st, chain,
                FindContinuous(
                    most_common(st.segments_between_pcnt[Head(positions)]),
                    prev_segment, leftward))

(* the nodes that `for segpos, segment in selected_segments: for node in  *)
(* segment` lets through to node_map, in the order the loops meet them    *)
NodeMapNodes(selected, pos_start, pos_end) ==
    SelectSeq(Concat([i \in DOMAIN selected |-> selected[i][2]]),
              LAMBDA node : /\ node # None
                            /\ ~(node.pos < pos_start \/ node.pos > pos_end))

(* node_map.values() of the given nodes: node_map[(pos, bp)] keeps the    *)
(* last node written                                                      *)
NodeMapValues(nodes) ==
    {nodes[i] : i \in {i \in DOMAIN nodes :
                          \A j \in DOMAIN nodes :
                              (j > i) => \/ nodes[j].pos # nodes[i].pos
                                         \/ nodes[j].bp # nodes[i].bp}}

NodeMap(selected, pos_start, pos_end) ==
    NodeMapValues(NodeMapNodes(selected, pos_start, pos_end))

(* `if seed_segments_ct[(segpos, segment)] == 0: del ...` *)
(* this variant leaves a seed in place when its count reaches zero *)
Prune_Keep(st, key) == st

Prune(st, key) ==
    IF CGet(st.seed_segments_ct, key) = 0
    THEN [st EXCEPT
            !.seed_segments_pcnt = CDel(@, key),
            !.segments_between_pcnt[key[1]] = CDel(@, key[2]),
            !.seed_segments_ct = CDel(@, key),
            !.segments_between_ct[key[1]] = CDel(@, key[2])]
    ELSE st

(* the four `-=` for one selected segment *)
SubtractOne(st, key, pattern_pcnt, pattern_count) ==
    [st EXCEPT
       !.seed_segments_pcnt = CAdd(@, key, - pattern_pcnt),
       !.segments_between_pcnt[key[1]] = CAdd(@, key[2], - pattern_pcnt),
       !.seed_segments_ct = CAdd(@, key, - pattern_count),
       !.segments_between_ct[key[1]] = CAdd(@, key[2], - pattern_count)]

RECURSIVE Subtract(_, _, _, _)
Subtract(selected, pattern_pcnt, pattern_count, st) ==
    IF selected = <<>> THEN st
    ELSE Subtract(Tail(selected), pattern_pcnt, pattern_count,
                  Prune(SubtractOne(st, Head(selected), pattern_pcnt,
                                    pattern_count),
                        Head(selected)))

(* `if pattern_nodes and pattern_count is not None: patterns[...] += ...` *)
PatternsRecord(st, chain, pattern_nodes) ==
    IF pattern_nodes # <<>>
    THEN [st EXCEPT
            !.patterns_pcnt = CAdd(@, pattern_nodes, chain.pattern_pcnt),
            !.patterns_ct = CAdd(@, pattern_nodes, chain.pattern_count),
            !.chains = Append(@, [pattern |-> pattern_nodes,
                                  selected |-> chain.selected_segments,
                                  count |-> chain.pattern_count,
                                  pcnt |-> chain.pattern_pcnt])]
    ELSE st

(* the rest of an iteration once both walks are done *)
PatternsFinish(st, chain, pos_start, pos_end) ==
    IF chain.status # "ok" THEN [st EXCEPT !.status = chain.status]
    ELSE PatternsRecord(
             Subtract(chain.selected_segments, chain.pattern_pcnt,
                      chain.pattern_count, st),
             chain,
             SortedNodes(NodeMap(chain.selected_segments,
                                 pos_start, pos_end)))

(* the walk to the right of the seed, after the walk to the left *)
WalkRight(st, seed, chain, real_pos_end) ==
    IF chain.status # "ok" THEN chain
    ELSE Walk(PyRange(seed.k[1] + segment_step, 1 + real_pos_end,
                      segment_step),
              seed.k[2], FALSE, st, chain)

(* the walk to the left of the seed *)
WalkLeft(st, seed, real_pos_start) ==
    Walk(PyRange(seed.k[1] - segment_step, real_pos_start - 1,
                 - segment_step),
         seed.k[2], TRUE, st,
         [selected_segments |-> <<seed.k>>,
          pattern_pcnt |-> seed.v,
          pattern_count |-> CGet(st.seed_segments_ct, seed.k),
          status |-> "ok"])

PatternsFromSeed(st, seed, pos_start, pos_end, real_pos_start, real_pos_end) ==
    PatternsFinish(st,
                   WalkRight(st, seed, WalkLeft(st, seed, real_pos_start),
                             real_pos_end),
                   pos_start, pos_end)

(* one iteration of the `while seed_segments_pcnt and ...` loop *)
PatternsIteration(st, pos_start, pos_end, real_pos_start, real_pos_end) ==
    PatternsFromSeed(st, most_common(st.seed_segments_pcnt)[1],
                     pos_start, pos_end, real_pos_start, real_pos_end)

RECURSIVE PatternsLoop(_, _, _, _, _, _)
PatternsLoop(st, pos_start, pos_end, real_pos_start, real_pos_end, top_n_seeds) ==
    IF st.status # "ok" THEN st
    ELSE IF /\ st.seed_segments_pcnt # <<>>
            /\ (top_n_seeds < 1 \/ Len(st.patterns_pcnt) < top_n_seeds)
         THEN PatternsLoop(
                  PatternsIteration(st, pos_start, pos_end,
                                    real_pos_start, real_pos_end),
                  pos_start, pos_end, real_pos_start, real_pos_end,
                  top_n_seeds)
         ELSE st

PatternsRealStart(pos_start) ==
    pos_start - ((pos_start - 1) % segment_step)

PatternsRealEnd(pos_start, pos_end) ==
    LET e0 == pos_end - segment_size + 1
        e1 == e0 + ((1 - e0) % segment_step)
    IN  IF PatternsRealStart(pos_start) > e1
        THEN PatternsRealStart(pos_start) ELSE e1

PatternsAnchors(pos_start, pos_end) ==
    PyRange(PatternsRealStart(pos_start),
            1 + PatternsRealEnd(pos_start, pos_end), segment_step)

PatternsSeeded(pos_start, pos_end) ==
    LET anchors == PatternsAnchors(pos_start, pos_end) IN
    PatternsLoadAll(
        anchors, pos_start, pos_end,
        [segments_between_pcnt |-> [p \in Range(anchors) |-> <<>>],
         segments_between_ct |-> [p \in Range(anchors) |-> <<>>],
         seed_segments_pcnt |-> <<>>,
         seed_segments_ct |-> <<>>,
         patterns_pcnt |-> <<>>,
         patterns_ct |-> <<>>,
         chains |-> <<>>,
         status |-> "ok"])

(* the `return {...}` of get_patterns, or the error the loop raised *)
PatternsReturn(st, args) ==
    IF st.status # "ok"
    THEN [op |-> "get_patterns", args |-> args,
          status |-> st.status, value |-> None, chains |-> <<>>]
    ELSE [op |-> "get_patterns", args |-> args, status |-> "ok",
          value |-> [pattern \in CKeys(st.patterns_pcnt) |->
                       <<CGet(st.patterns_ct, pattern),
                         CGet(st.patterns_pcnt, pattern)>>],
          chains |-> st.chains]

get_patterns_result(pos_start, pos_end, top_n_seeds) ==
    PatternsReturn(
        PatternsLoop(PatternsSeeded(pos_start, pos_end), pos_start, pos_end,
                     PatternsRealStart(pos_start),
                     PatternsRealEnd(pos_start, pos_end), top_n_seeds),
        <<pos_start, pos_end, top_n_seeds>>)

get_patterns(pos_start, pos_end, top_n_seeds) ==
    /\ ret' = get_patterns_result(pos_start, pos_end, top_n_seeds)
    /\ UNCHANGED <<segment_size, segment_step, segments, max_segpos>>

----------------------------------------------------------------------------
(* Codon counters and codonalign_consensus                                *)
(* (codfreq/sam2codfreq.py, codfreq/codonalign_consensus.py)              *)

DEL_CODON == "---"
CodonPool == {"ATG", "A-G", "AG-"}
QualPool == {1, 2}

(* postalign's codon_align is an external, deterministic gap re-placement. *)
(* It is modelled codon by codon as a table fixed by the fragment's       *)
(* directive; only tables that leave an already re-placed codon alone are *)
(* considered.                                                            *)
CdaPlacements ==
    {f \in [CodonPool \cup {DEL_CODON} -> CodonPool \cup {DEL_CODON}] :
        /\ f[DEL_CODON] = DEL_CODON
        /\ \A c \in CodonPool : f[c] \in CodonPool /\ f[f[c]] = f[c]}

NumReads == SumOver([a \in 1..NumAA |-> CTotal(codonstat[a])], 1..NumAA)

(* sam2codfreq_between: one observed codon of one read *)
count_codon(aapos, codon, qua) ==
    /\ codonstat' = [codonstat EXCEPT ![aapos] = CAdd(@, codon, 1)]
    /\ qualities' = [qualities EXCEPT ![aapos] = CAdd(@, codon, qua)]
    /\ UNCHANGED <<fragment, cda_calls>>

(* assemble_alignment: the consensus codon of every aapos, and last_aa *)
ConsensusCodon(aapos) ==
    IF codonstat[aapos] # <<>>
    THEN most_common(codonstat[aapos])[1].k
    ELSE DEL_CODON

last_aa ==
    IF \E a \in 1..NumAA : codonstat[a] # <<>>
    THEN Max({a \in 1..NumAA : codonstat[a] # <<>>})
    ELSE 0

codon_align(placement, cons_codon) == placement[cons_codon]

(* codons[newcodon] += codons.pop(oldcodon): Python reads codons[newcodon] *)
(* first, then pops oldcodon, then stores the sum under newcodon          *)
Transfer(codons, newcodon, oldcodon) ==
    LET current == CGet(codons, newcodon)
        popped == CGet(codons, oldcodon)
    IN  CSet(CDel(codons, oldcodon), newcodon, current + popped)

Rewritten(counter, aapos) ==
    LET codons == codonstat[aapos]
        quas == qualities[aapos]
        newcodon == codon_align(fragment.placement, ConsensusCodon(aapos))
    IN  IF codons = <<>> \/ quas = <<>> THEN counter[aapos]
        ELSE Transfer(counter[aapos], newcodon, most_common(codons)[1].k)

codonalign_consensus ==
    /\ cda_calls' = cda_calls + 1
    /\ IF fragment.codonAlignment = FALSE \/ last_aa = 0
       THEN UNCHANGED <<codonstat, qualities>>
       ELSE /\ codonstat' = [a \in 1..NumAA |-> Rewritten(codonstat, a)]
            /\ qualities' = [a \in 1..NumAA |-> Rewritten(qualities, a)]
    /\ UNCHANGED fragment

----------------------------------------------------------------------------
(* Inputs *)

(* a segment of ins_idx = 0 nodes; "." is an unobserved slot *)
Seg(pos, nas) ==
    [i \in DOMAIN nas |->
        IF nas[i] = "." THEN None ELSE PosNA(pos + i - 1, 0, nas[i])]

SegmentPool ==
    { Seg(1, <<"A", "C", "G", "T">>),
      Seg(1, <<"A", "T", "G", "T">>),
      Seg(1, <<"A", "C", ".", ".">>),
      <<PosNA(1, 0, "A"), PosNA(2, 0, "C"), PosNA(3, 0, "G"),
        PosNA(3, 1, "A"), PosNA(4, 0, "T")>>,
      Seg(3, <<"G", "T", "A", "A">>),
      Seg(3, <<"G", "T", ".", ".">>) }

PositionLists ==
    {<<p>> : p \in 1..MaxPos}
    \cup {<<p, q>> : p \in 1..MaxPos, q \in 1..MaxPos}
    \cup {<<p, p + 1, r>> : p \in 1..MaxPos, r \in 3..MaxPos}

Counts == {1, 2}
Levels == {70, 95, 100}
TopNSeeds == {0, 1, 2}

(* no sidecar file yet, no file open, no task created, no request *)
NoEnv ==
    /\ sidecar = [exists |-> FALSE, lines |-> <<>>]
    /\ writer = [open |-> FALSE, pending |-> <<>>]
    /\ taskmeta = [status |-> "none", finished |-> FALSE]
    /\ requests = <<>>
    /\ logs = FALSE

NoCda ==
    /\ codonstat = [a \in 1..NumAA |-> <<>>]
    /\ qualities = [a \in 1..NumAA |-> <<>>]
    /\ fragment = [codonAlignment |-> FALSE,
                   placement |-> [c \in CodonPool \cup {DEL_CODON} |-> c]]
    /\ cda_calls = 0

NoSegFreq(size, step) == SegFreqInit(size, step)

(* queries are pure: issuing one after another reaches no new state, so   *)
(* the model issues a query only right after construction or an add       *)
Idle == ret.op \in {"__init__", "add"}

Add(pool) ==
    \E segment \in pool, count \in Counts :
        /\ CGet(SegmentsAt(get_segment_pos(segment)), segment) + count
               \in Counts
        /\ \/ CHas(SegmentsAt(get_segment_pos(segment)), segment)
           \/ NumEntries < MaxAdds
        /\ add(segment, count)
        /\ UNCHANGED <<cda_vars, env_vars>>

GetFrequency ==
    \E positions \in PositionLists :
        Idle /\ get_frequency(positions, 3) /\ UNCHANGED <<cda_vars, env_vars>>

GetPosNas ==
    \E pos \in 1..MaxPos :
        Idle /\ get_pos_nas(pos) /\ UNCHANGED <<cda_vars, env_vars>>

GetConsensus ==
    \E pos_start \in 1..MaxPos, pos_end \in 1..MaxPos, level_pct \in Levels :
        Idle /\ pos_start <= pos_end
             /\ get_consensus(pos_start, pos_end, level_pct)
             /\ UNCHANGED <<cda_vars, env_vars>>

GetPatterns ==
    \E pos_start \in 1..MaxPos, pos_end \in 1..MaxPos, top_n \in TopNSeeds :
        Idle /\ pos_start <= pos_end
             /\ get_patterns(pos_start, pos_end, top_n)
             /\ UNCHANGED <<cda_vars, env_vars>>

Init == NoSegFreq(4, 2) /\ NoCda /\ NoEnv

Next ==
    \/ Add(SegmentPool)
    \/ GetFrequency
    \/ GetPosNas
    \/ GetConsensus
    \/ GetPatterns

Spec == Init /\ [][Next]_vars

(* the codon re-aligner on its own *)
InitCda ==
    /\ NoSegFreq(4, 2)
    /\ NoEnv
    /\ codonstat = [a \in 1..NumAA |-> <<>>]
    /\ qualities = [a \in 1..NumAA |-> <<>>]
    /\ \E on \in BOOLEAN, placement \in CdaPlacements :
           fragment = [codonAlignment |-> on, placement |-> placement]
    /\ cda_calls = 0

CountCodon ==
    \E aapos \in 1..NumAA, codon \in CodonPool, qua \in QualPool :
        /\ cda_calls = 0
        /\ NumReads < MaxReads
        /\ count_codon(aapos, codon, qua)
        /\ UNCHANGED <<segfreq_vars, env_vars>>

CodonAlign ==
    /\ cda_calls < MaxCdaCalls
    /\ codonalign_consensus
    /\ UNCHANGED <<segfreq_vars, env_vars>>

NextCda == CountCodon \/ CodonAlign

SpecCda == InitCda /\ [][NextCda]_vars

----------------------------------------------------------------------------
(* Scenario: segment_size = 12, segment_step = 4, one fully observed      *)
(* segment (tests/test_segfreq.py, test_get_frequency)                    *)

Spelling(pos, nas) == Seg(pos, nas)

SegmentPoolC1 ==
    {Spelling(p, nas) :
        p \in 21561..21565,
        nas \in {<<"A", "T", "G", "T", "T", "T", "G", "T", "T", "T", "T", "C">>,
                 <<"G", "T", "G", "T", "T", "T", "G", "T", "T", "T", "T", "C">>}}

AddC1 ==
    \E segment \in SegmentPoolC1, count \in {1, 1377} :
        /\ segments = <<>>
        /\ add(segment, count)
        /\ UNCHANGED <<cda_vars, env_vars>>

GetFrequencyC1 ==
    \E p \in 21561..21567 :
        \E positions \in {<<p>>, <<p, p + 1, p + 2>>} :
            Idle /\ get_frequency(positions, 3) /\ UNCHANGED <<cda_vars, env_vars>>

InitC1 == NoSegFreq(12, 4) /\ NoCda /\ NoEnv
NextC1 == AddC1 \/ GetFrequencyC1
SpecC1 == InitC1 /\ [][NextC1]_vars

(* the SegFreq holds only copies of one segment of segment_size ins_idx=0 *)
(* nodes at consecutive positions                                         *)
OnlySegment(segment) ==
    /\ ~SegmentIsMalformed(segment)
    /\ DOMAIN segments = {get_segment_pos(segment)}
    /\ CKeys(segments[get_segment_pos(segment)]) = {segment}

FullyObserved(segment) ==
    /\ Len(segment) = segment_size
    /\ \A i \in DOMAIN segment :
          /\ segment[i] # None
          /\ segment[i].bp = 0
          /\ segment[i].pos = segment[1].pos + i - 1

FirstThree(segment) == <<segment[1].na, segment[2].na, segment[3].na>>

QueriedFirstThree(segment) ==
    /\ ret.op = "get_frequency"
    /\ ret.args[1] = <<segment[1].pos, segment[1].pos + 1, segment[1].pos + 2>>

(* C1 as stated: a SegFreq holding only `count` copies of one fully       *)
(* observed segment anchored at p answers a query for its first three     *)
(* positions with exactly {first three bases: count}, whatever p is       *)
C1_AsStated ==
    \A segment \in SegmentPoolC1 :
        (OnlySegment(segment) /\ FullyObserved(segment)
            /\ QueriedFirstThree(segment))
        => /\ ret.status = "ok"
           /\ ret.value = (FirstThree(segment) :>
                              CGet(segments[segment[1].pos], segment))

(* C1: a SegFreq holding only `count` copies of one fully observed        *)
(* segment anchored at p answers a query for its first three positions    *)
(* with exactly {first three bases: count} when p = 1 (mod segment_step), *)
(* and with the empty mapping for any other p (21563 among them)          *)
C1_FirstThree ==
    \A segment \in SegmentPoolC1 :
        (OnlySegment(segment) /\ FullyObserved(segment)
            /\ QueriedFirstThree(segment))
        => /\ ret.status = "ok"
           /\ ret.value =
                IF (segment[1].pos - 1) % segment_step = 0
                THEN (FirstThree(segment) :>
                        CGet(segments[segment[1].pos], segment))
                ELSE <<>>

C1_Witness ==
    /\ ret.op = "get_frequency"
    /\ ret.args[1] = <<21561, 21562, 21563>>
    /\ 21561 \in DOMAIN segments
    /\ ret.value = (<<"A", "T", "G">> :> 1377)

----------------------------------------------------------------------------
(* get_frequency: how far apart the requested positions may be            *)

Spread(positions) == Max(Range(positions)) - Min(Range(positions))

(* C2 as stated, on the requested positions: a spread of segment_size - 1 *)
(* succeeds and a spread of segment_size or more raises                   *)
C2_AsStated ==
    ret.op = "get_frequency" =>
        /\ Spread(ret.args[1]) = segment_size - 1 => ret.status = "ok"
        /\ Spread(ret.args[1]) >= segment_size => ret.status = "ValueError"

(* C2: with P the requested positions after padding to na_size,           *)
(* get_frequency succeeds when max(P) - min(P) = segment_size - 1 and     *)
(* min(P) = 1 (mod segment_step), and raises "too far apart" when         *)
(* max(P) - min(P) >= segment_size and max(P) lies before the end of the  *)
(* last stored window (max(P) < _max_segpos + segment_size)               *)
C2_TooFarApart ==
    ret.op = "get_frequency" =>
        LET P == PadPositions(ret.args[1], ret.args[2]) IN
        /\ (Spread(P) = segment_size - 1
               /\ (Min(Range(P)) - 1) % segment_step = 0)
           => ret.status = "ok"
        /\ (Spread(P) >= segment_size
               /\ Max(Range(P)) < max_segpos + segment_size)
           => ret.status = "ValueError"

C2_Witness ==
    /\ ret.op = "get_frequency"
    /\ ret.status = "ok"
    /\ Spread(ret.args[1]) = segment_size - 1
    /\ Len(ret.args[1]) = ret.args[2]
    /\ (Min(Range(ret.args[1])) - 1) % segment_step = 0
    /\ DOMAIN ret.value # {}

----------------------------------------------------------------------------
(* get_pos_nas against the stored segments                                *)

WindowAnchor(pos) ==
    LET a == pos - ((pos - 1) % segment_step) IN
    IF a > max_segpos THEN max_segpos ELSE a

InsideWindow(pos) ==
    /\ WindowAnchor(pos) \in DOMAIN segments
    /\ WindowAnchor(pos) <= pos
    /\ pos < WindowAnchor(pos) + segment_size

Observes(segment, pos) ==
    \E i \in DOMAIN segment : segment[i] # None /\ segment[i].pos = pos

ObservingTotal(pos) ==
    LET c == segments[WindowAnchor(pos)] IN
    SumOver([i \in DOMAIN c |-> IF Observes(c[i].k, pos) THEN c[i].v ELSE 0],
            DOMAIN c)

ReturnedTotal == SumOver(ret.value, DOMAIN ret.value)

(* C3 as stated: for pos inside a stored window the counts returned by    *)
(* get_pos_nas(pos) add up to the total count of the segments anchored at *)
(* that window                                                            *)
C3_AsStated ==
    (ret.op = "get_pos_nas" /\ InsideWindow(ret.args[1]))
    => ReturnedTotal = CTotal(segments[WindowAnchor(ret.args[1])])

(* C3: for pos inside a stored window the counts returned by              *)
(* get_pos_nas(pos) add up to the total count of those segments anchored  *)
(* at the window that hold a node at pos; segments with an unobserved     *)
(* slot there are left out, so the sum never exceeds the window's total   *)
C3_ObservingTotal ==
    (ret.op = "get_pos_nas" /\ InsideWindow(ret.args[1]))
    => /\ ReturnedTotal = ObservingTotal(ret.args[1])
       /\ ReturnedTotal <= CTotal(segments[WindowAnchor(ret.args[1])])

C3_Witness ==
    /\ ret.op = "get_pos_nas"
    /\ InsideWindow(ret.args[1])
    /\ ReturnedTotal > 0
    /\ ReturnedTotal < CTotal(segments[WindowAnchor(ret.args[1])])

----------------------------------------------------------------------------
(* get_consensus: shape of the answer                                     *)

Slots(consensus) ==
    {i \in DOMAIN consensus : consensus[i] = None \/ consensus[i].bp = 0}

(* C4 as stated: get_consensus(pos_start, pos_end, level) returns one     *)
(* ins_idx=0 slot per reference position of [pos_start, pos_end], None    *)
(* standing for a position without data, so get_consensus(p, p, 1.0) is   *)
(* always a single-element sequence                                       *)
C4_AsStated ==
    ret.op = "get_consensus" =>
        /\ ret.status = "ok"
        /\ Cardinality(Slots(ret.value)) = ret.args[2] - ret.args[1] + 1
        /\ (ret.args[1] = ret.args[2] /\ ret.args[3] = 100)
           => Len(ret.value) = 1

----------------------------------------------------------------------------
(* get_patterns: reported counts against the support of the segments      *)

MaskedSupport(pos, masked) ==
    LET c == SegmentsAt(pos) IN
    SumOver([i \in DOMAIN c |->
                IF mask_segment(c[i].k, ret.args[1], ret.args[2]) = masked
                THEN c[i].v ELSE 0],
            DOMAIN c)

ChainsOf(pattern) ==
    {i \in DOMAIN ret.chains : ret.chains[i].pattern = pattern}

MinSupport(chain) ==
    Min({MaskedSupport(sel[1], sel[2]) : sel \in Range(chain.selected)})

(* C7 as stated: every pattern returned by get_patterns reports a count   *)
(* no larger than the smallest support among the segments chained to form *)
(* it, also when several seeds produced the pattern                       *)
C7_AsStated ==
    (ret.op = "get_patterns" /\ ret.status = "ok") =>
        \A pattern \in DOMAIN ret.value :
            \A i \in ChainsOf(pattern) :
                ret.value[pattern][1] <= MinSupport(ret.chains[i])

(* C7: a pattern that one seed produced reports a count no larger than    *)
(* the smallest support among the segments of its chain; a pattern that   *)
(* several seeds produced reports the sum over its chains of what each    *)
(* chain contributed, and each contribution is no larger than the         *)
(* smallest support in that chain                                         *)
C7_ChainSupport ==
    (ret.op = "get_patterns" /\ ret.status = "ok") =>
        /\ \A i \in DOMAIN ret.chains :
               ret.chains[i].count <= MinSupport(ret.chains[i])
        /\ \A pattern \in DOMAIN ret.value :
               /\ ret.value[pattern][1] =
                      SumOver([i \in DOMAIN ret.chains |->
                                   ret.chains[i].count],
                              ChainsOf(pattern))
               /\ Cardinality(ChainsOf(pattern)) = 1
                  => \A i \in ChainsOf(pattern) :
                        ret.value[pattern][1] <= MinSupport(ret.chains[i])

C7_Witness ==
    /\ ret.op = "get_patterns"
    /\ ret.status = "ok"
    /\ \E pattern \in DOMAIN ret.value :
           /\ Cardinality(ChainsOf(pattern)) = 1
           /\ \E i \in ChainsOf(pattern) :
                 /\ Len(ret.chains[i].selected) = 2
                 /\ ret.value[pattern][1] = 1
                 /\ \E sel \in Range(ret.chains[i].selected) :
                       MaskedSupport(sel[1], sel[2]) = 2

----------------------------------------------------------------------------
(* get_patterns on a range inside one window                              *)

PatternsAnchor == ret.args[1] - ((ret.args[1] - 1) % segment_step)

SingleWindow == ret.args[2] <= PatternsAnchor + segment_size - 1

InRange(segment) ==
    SelectSeq(segment,
              LAMBDA node : /\ node # None
                            /\ node.pos >= ret.args[1]
                            /\ node.pos <= ret.args[2])

DistinctPatterns ==
    {InRange(e.k) : e \in Range(SegmentsAt(PatternsAnchor))} \ {<<>>}

SupportOf(pattern) ==
    LET c == SegmentsAt(PatternsAnchor) IN
    SumOver([i \in DOMAIN c |->
                IF InRange(c[i].k) = pattern THEN c[i].v ELSE 0],
            DOMAIN c)

ObservingInRange ==
    LET c == SegmentsAt(PatternsAnchor) IN
    SumOver([i \in DOMAIN c |->
                IF InRange(c[i].k) # <<>> THEN c[i].v ELSE 0],
            DOMAIN c)

Partitioned ==
    /\ ret.status = "ok"
    /\ DOMAIN ret.value = DistinctPatterns
    /\ \A pattern \in DOMAIN ret.value :
           ret.value[pattern][1] = SupportOf(pattern)
    /\ SumOver([pattern \in DOMAIN ret.value |-> ret.value[pattern][1]],
               DOMAIN ret.value) = ObservingInRange

(* C8 as stated: on a range inside one window, with top_n_seeds < 1 or at *)
(* least the number of distinct patterns, get_patterns partitions the     *)
(* segments at the anchor by their in-range nodes                         *)
C8_AsStated ==
    (ret.op = "get_patterns" /\ SingleWindow
        /\ (ret.args[3] < 1 \/ ret.args[3] >= Cardinality(DistinctPatterns)))
    => Partitioned

(* C8: on a range inside the window anchored at pos_start aligned down,   *)
(* with top_n_seeds < 1 or strictly greater than the number of distinct   *)
(* patterns, get_patterns partitions the segments at that anchor by their *)
(* in-range nodes: each pattern's count is the total count of the         *)
(* segments whose in-range nodes equal it, and the counts add up to the   *)
(* total count of the segments that observe a position of the range       *)
C8_Partition ==
    (ret.op = "get_patterns" /\ SingleWindow
        /\ (ret.args[3] < 1 \/ ret.args[3] > Cardinality(DistinctPatterns)))
    => Partitioned

C8_Witness ==
    /\ ret.op = "get_patterns"
    /\ SingleWindow
    /\ ret.args[3] = 2
    /\ Cardinality(DistinctPatterns) = 1
    /\ Len(SegmentsAt(PatternsAnchor)) = 2
    /\ \E pattern \in DOMAIN ret.value : ret.value[pattern][1] = 3

----------------------------------------------------------------------------
(* Scenario: segments at one anchor contributing A, G and C at its first  *)
(* position with counts 70, 25 and 5                                      *)

SegmentPoolC5 ==
    {Seg(1, <<b, "C", "G", "T">>) : b \in {"A", "G", "C"}}

AddC5 ==
    \E segment \in SegmentPoolC5, count \in {70, 25, 5} :
        /\ ~CHas(SegmentsAt(1), segment)
        /\ add(segment, count)
        /\ UNCHANGED <<cda_vars, env_vars>>

GetConsensusC5 ==
    \E pos_start \in 1..2, pos_end \in 1..2, level_pct \in Levels :
        Idle /\ pos_start <= pos_end
             /\ get_consensus(pos_start, pos_end, level_pct)
             /\ UNCHANGED <<cda_vars, env_vars>>

InitC5 == NoSegFreq(4, 2) /\ NoCda /\ NoEnv
NextC5 == AddC5 \/ GetConsensusC5
SpecC5 == InitC5 /\ [][NextC5]_vars

Contributes(na, count) ==
    CGet(SegmentsAt(1), Seg(1, <<na, "C", "G", "T">>)) = count

(* C5 as stated: where segments contribute A x 70, G x 25 and C x 5 at a  *)
(* position, get_consensus over that position yields base A at level 0.7  *)
(* and R (A merged with G) at level 0.95                                  *)
C5_AsStated ==
    (ret.op = "get_consensus" /\ ret.args[1] = 1 /\ ret.args[2] = 1
        /\ Contributes("A", 70) /\ Contributes("G", 25)
        /\ Contributes("C", 5))
    => /\ ret.args[3] = 70
          => (ret.status = "ok" /\ ret.value = <<PosNA(1, 0, "A")>>)
       /\ ret.args[3] = 95
          => (ret.status = "ok" /\ ret.value = <<PosNA(1, 0, "R")>>)

----------------------------------------------------------------------------
(* Scenario: segment_size = 12, segment_step = 4, overlapping segments    *)
(* that agree on their overlaps                                           *)

BaseAt(pos) == <<"A", "C", "G", "T">>[(pos % 4) + 1]

Stitch(anchor) == [i \in 1..12 |-> PosNA(anchor + i - 1, 0, BaseAt(anchor + i - 1))]

Variant(anchor) == [Stitch(anchor) EXCEPT ![12] = PosNA(anchor + 11, 0, "N")]

SegmentPoolC6 ==
    {Stitch(anchor) : anchor \in {100, 104, 108, 101, 105, 109}}
    \cup {Variant(105)}

AddC6 ==
    \E segment \in SegmentPoolC6, count \in {50, 20} :
        /\ ~CHas(SegmentsAt(get_segment_pos(segment)), segment)
        /\ add(segment, count)
        /\ UNCHANGED <<cda_vars, env_vars>>

GetPatternsC6 ==
    \E range \in {<<100, 119>>, <<101, 120>>}, top_n \in {0, 1} :
        Idle /\ get_patterns(range[1], range[2], top_n)
             /\ UNCHANGED <<cda_vars, env_vars>>

InitC6 == NoSegFreq(12, 4) /\ NoCda /\ NoEnv
NextC6 == AddC6 \/ GetPatternsC6
SpecC6 == InitC6 /\ [][NextC6]_vars

(* exactly the three stitched segments at first, first + 4, first + 8,    *)
(* each with count 50                                                     *)
ThreeStitched(first) ==
    /\ DOMAIN segments = {first, first + 4, first + 8}
    /\ \A a \in {first, first + 4, first + 8} :
           segments[a] = <<[k |-> Stitch(a), v |-> 50]>>

OnePattern(first, last) ==
    /\ ret.status = "ok"
    /\ Cardinality(DOMAIN ret.value) = 1
    /\ \A pattern \in DOMAIN ret.value :
           /\ pattern = [i \in 1..(last - first + 1) |->
                            PosNA(first + i - 1, 0, BaseAt(first + i - 1))]
           /\ ret.value[pattern] = <<50, 10000>>

(* C6 as stated: after three overlapping segments anchored at 100, 104    *)
(* and 108, count 50 each, get_patterns(100, 119, 1) returns exactly one  *)
(* pattern, spanning 100..119 with count 50 and fraction 1.0              *)
C6_AsStated ==
    (ret.op = "get_patterns" /\ ret.args = <<100, 119, 1>>
        /\ ThreeStitched(100))
    => OnePattern(100, 119)

(* C6: after three overlapping segments anchored at 101, 105 and 109      *)
(* (anchors of the form 1 + 4k), count 50 each, get_patterns(101, 120, 1) *)
(* returns exactly one pattern, spanning 101..120 with count 50 and       *)
(* fraction 1.0; with the segments at 100, 104 and 108 instead,           *)
(* get_patterns(100, 119, 1) returns no pattern                           *)
C6_Stitched ==
    /\ (ret.op = "get_patterns" /\ ret.args = <<101, 120, 1>>
           /\ ThreeStitched(101))
       => OnePattern(101, 120)
    /\ (ret.op = "get_patterns" /\ ret.args = <<100, 119, 1>>
           /\ ThreeStitched(100))
       => (ret.status = "ok" /\ DOMAIN ret.value = {})

C6_Witness ==
    /\ ret.op = "get_patterns"
    /\ ret.args = <<101, 120, 1>>
    /\ ThreeStitched(101)
    /\ Cardinality(DOMAIN ret.value) = 1

----------------------------------------------------------------------------
(* Codon re-alignment against the counters it is given                    *)

CdaStep == cda_calls' = cda_calls + 1

(* C9 as stated: a call of codonalign_consensus leaves, for every aapos   *)
(* of the fragment, the sum of the codon counts and the sum of the        *)
(* total_quality_score as they were, whether or not the re-placed codon   *)
(* differs from the prior most common codon                               *)
C9_AsStated ==
    [][CdaStep =>
         \A aapos \in 1..NumAA :
             /\ CTotal(codonstat'[aapos]) = CTotal(codonstat[aapos])
             /\ CTotal(qualities'[aapos]) = CTotal(qualities[aapos])]_vars

(* C10 as stated: a call of codonalign_consensus on counters an earlier   *)
(* call produced leaves the codon and quality counters as they are        *)
C10_AsStated ==
    [][(CdaStep /\ cda_calls >= 1) =>
         (codonstat' = codonstat /\ qualities' = qualities)]_vars

----------------------------------------------------------------------------
(* A SegFreq as a value: SegFreq.update and SegFreq.load work on an       *)
(* object other than the receiver                                         *)

Self ==
    [segment_size |-> segment_size, segment_step |-> segment_step,
     segments |-> segments, max_segpos |-> max_segpos]

SegFreqNew(size, step) ==
    [segment_size |-> size, segment_step |-> step,
     segments |-> <<>>, max_segpos |-> 0]

ConstructorRejects_Loose(size, step) == step < 1 \/ size - step < 1

ConstructorRejects(size, step) == step < 1 \/ size - step < 2

SegmentsOf(sf, pos) ==
    IF pos \in DOMAIN sf.segments THEN sf.segments[pos] ELSE <<>>

AddedAt(sf, pos, segment, count) ==
    [sf EXCEPT
        !.segments = [p \in DOMAIN sf.segments \cup {pos} |->
                        IF p = pos
                        THEN CAdd(SegmentsOf(sf, pos), segment, count)
                        ELSE sf.segments[p]],
        !.max_segpos = IF sf.max_segpos > pos THEN sf.max_segpos ELSE pos]

Added(sf, segment, count) ==
    AddedAt(sf, get_segment_pos(segment), segment, count)

(* SegFreq.update: the loop over one position's Counter of the other *)
RECURSIVE UpdatedFrom(_, _)
UpdatedFrom(sf, items) ==
    IF items = <<>> THEN sf
    ELSE UpdatedFrom(Added(sf, Head(items).k, Head(items).v), Tail(items))

RECURSIVE UpdatedOver(_, _, _)
UpdatedOver(sf, other, positions) ==
    IF positions = {} THEN sf
    ELSE UpdatedOver(UpdatedFrom(sf, other.segments[Min(positions)]),
                     other, positions \ {Min(positions)})

Updated_Overwrite(sf, other) ==
    [sf EXCEPT
        !.segments = [p \in DOMAIN sf.segments \cup DOMAIN other.segments |->
                        IF p \in DOMAIN other.segments
                        THEN other.segments[p] ELSE sf.segments[p]],
        !.max_segpos = IF sf.max_segpos > other.max_segpos
                       THEN sf.max_segpos ELSE other.max_segpos]

Updated(sf, other) == UpdatedOver(sf, other, DOMAIN other.segments)

UpdateRejects(sf, other) == sf.segment_size # other.segment_size

----------------------------------------------------------------------------
(* SegFreq.dump and SegFreq.load: the segfreq file.  A nucleotide is      *)
(* written in the model by its character, a text by the sequence of its   *)
(* characters                                                             *)

Digits == <<"0", "1", "2", "3", "4", "5", "6", "7", "8", "9">>

RECURSIVE StrNat(_)
StrNat(n) ==
    IF n < 10 THEN <<Digits[n + 1]>>
    ELSE Append(StrNat(n \div 10), Digits[(n % 10) + 1])

str(n) == IF n < 0 THEN <<"-">> \o StrNat(0 - n) ELSE StrNat(n)

IsDigits(text) ==
    text # <<>> /\ \A i \in DOMAIN text : text[i] \in Range(Digits)

DigitValue(c) == (CHOOSE d \in DOMAIN Digits : Digits[d] = c) - 1

RECURSIVE IntNat(_, _)
IntNat(text, value) ==
    IF text = <<>> THEN value
    ELSE IntNat(Tail(text), 10 * value + DigitValue(Head(text)))

int(text) ==
    IF Head(text) = "-" THEN 0 - IntNat(Tail(text), 0) ELSE IntNat(text, 0)

Offset_SamePos(from_node, to_node) ==
    IF from_node = None \/ to_node = None \/ from_node.pos <= to_node.pos
    THEN "." ELSE "+"

Offset(from_node, to_node) ==
    IF from_node = None \/ to_node = None \/ from_node.pos < to_node.pos
    THEN "." ELSE "+"

SegmentText(segment) ==
    [i \in DOMAIN segment |->
        IF segment[i] = None THEN "." ELSE segment[i].na]

OffsetsText(segment) ==
    [i \in 1..(Len(segment) - 1) |-> Offset(segment[i], segment[i + 1])]

DumpKeyOf(nodes) ==
    [i \in DOMAIN nodes |-> nodes[i].bp]
        \o [i \in DOMAIN nodes |-> NaOrd(nodes[i].na)]

DumpKey(segment) == DumpKeyOf(SelectSeq(segment, LAMBDA node : node # None))

(* Python's order of two tuples of integers *)
RECURSIVE TupleLt(_, _)
TupleLt(a, b) ==
    IF b = <<>> THEN FALSE
    ELSE IF a = <<>> THEN TRUE
    ELSE IF Head(a) # Head(b) THEN Head(a) < Head(b)
    ELSE TupleLt(Tail(a), Tail(b))

(* sorted(pos_segments.items(), key=...): stable *)
RECURSIVE InsertByKey(_, _)
InsertByKey(sorted, item) ==
    IF sorted = <<>> THEN <<item>>
    ELSE IF TupleLt(DumpKey(item.k), DumpKey(Head(sorted).k))
         THEN <<item>> \o sorted
         ELSE <<Head(sorted)>> \o InsertByKey(Tail(sorted), item)

RECURSIVE SortedItems(_, _)
SortedItems(items, sorted) ==
    IF items = <<>> THEN sorted
    ELSE SortedItems(Tail(items), InsertByKey(sorted, Head(items)))

DumpRow(pos, item) ==
    [pos |-> str(pos), segment |-> SegmentText(item.k),
     offsets |-> OffsetsText(item.k), count |-> str(item.v)]

DumpRowsAt(pos, items) == [i \in DOMAIN items |-> DumpRow(pos, items[i])]

RECURSIVE DumpRows(_, _)
DumpRows(sf, positions) ==
    IF positions = {} THEN <<>>
    ELSE DumpRowsAt(Min(positions),
                    SortedItems(sf.segments[Min(positions)], <<>>))
             \o DumpRows(sf, positions \ {Min(positions)})

dump_result(sf) ==
    [comments |-> << [key |-> "segment_size", val |-> str(sf.segment_size)],
                     [key |-> "segment_step", val |-> str(sf.segment_step)] >>,
     header |-> <<"pos", "segment", "offsets", "count">>,
     rows |-> DumpRows(sf, DOMAIN sf.segments)]

dump ==
    /\ ret' = [op |-> "dump", args |-> <<>>, status |-> "ok",
               value |-> dump_result(Self)]
    /\ UNCHANGED <<segment_size, segment_step, segments, max_segpos>>

DEFAULT_SEGMENT_SIZE == 3
DEFAULT_SEGMENT_STEP == 1

(* the comment lines: a line that names the key and carries \d+ sets the  *)
(* value, any other comment line is ignored                               *)
RECURSIVE HeaderValue(_, _, _)
HeaderValue(comments, key, value) ==
    IF comments = <<>> THEN value
    ELSE HeaderValue(Tail(comments), key,
                     IF Head(comments).key = key /\ IsDigits(Head(comments).val)
                     THEN int(Head(comments).val) ELSE value)

LoadNode(pos, bp, na) == IF na = "." THEN None ELSE PosNA(pos, bp, na)

(* for offset, na in zip('=' + row[2], row[1]) *)
RECURSIVE LoadNodes(_, _, _, _)
LoadNodes(offsets, nas, prev_pos, prev_bp) ==
    IF offsets = <<>> \/ nas = <<>> THEN <<>>
    ELSE IF Head(offsets) = "="
         THEN <<LoadNode(prev_pos, 0, Head(nas))>>
                  \o LoadNodes(Tail(offsets), Tail(nas), prev_pos, prev_bp)
    ELSE IF Head(offsets) = "+"
         THEN <<PosNA(prev_pos, prev_bp + 1, Head(nas))>>
                  \o LoadNodes(Tail(offsets), Tail(nas), prev_pos, prev_bp + 1)
    ELSE <<LoadNode(prev_pos + 1, 0, Head(nas))>>
             \o LoadNodes(Tail(offsets), Tail(nas), prev_pos + 1, 0)

LoadSegment(row) ==
    LoadNodes(<<"=">> \o row.offsets, row.segment, int(row.pos), 0)

(* a SegFreq that no call returns: the call raised instead *)
NoSegFreqValue == SegFreqNew(0, 0)

LoadAdd(sf, segment, count) ==
    IF sf.segment_size = 0 \/ SegmentIsMalformed(segment) THEN NoSegFreqValue
    ELSE Added(sf, segment, count)

RECURSIVE LoadRows(_, _)
LoadRows(sf, rows) ==
    IF rows = <<>> THEN sf
    ELSE LoadRows(LoadAdd(sf, LoadSegment(Head(rows)), int(Head(rows).count)),
                  Tail(rows))

LoadSize(file) ==
    HeaderValue(file.comments, "segment_size", DEFAULT_SEGMENT_SIZE)
LoadStep(file) ==
    HeaderValue(file.comments, "segment_step", DEFAULT_SEGMENT_STEP)

load_result(file) ==
    IF ConstructorRejects(LoadSize(file), LoadStep(file)) THEN NoSegFreqValue
    ELSE LoadRows(SegFreqNew(LoadSize(file), LoadStep(file)), file.rows)

Become(sf) ==
    /\ segment_size' = sf.segment_size
    /\ segment_step' = sf.segment_step
    /\ segments' = sf.segments
    /\ max_segpos' = sf.max_segpos

load(file) ==
    /\ IF load_result(file).segment_size = 0
       THEN /\ ret' = [op |-> "load",
                       args |-> <<LoadSize(file), LoadStep(file)>>,
                       status |-> "ValueError", value |-> None]
            /\ UNCHANGED <<segment_size, segment_step, segments, max_segpos>>
       ELSE /\ ret' = [op |-> "load",
                       args |-> <<LoadSize(file), LoadStep(file)>>,
                       status |-> "ok", value |-> None]
            /\ Become(load_result(file))

(* SegFreq(size, step) *)
new(size, step) ==
    IF ConstructorRejects(size, step)
    THEN /\ ret' = [op |-> "__init__", args |-> <<size, step>>,
                    status |-> "ValueError", value |-> None]
         /\ UNCHANGED <<segment_size, segment_step, segments, max_segpos>>
    ELSE /\ ret' = [op |-> "__init__", args |-> <<size, step>>,
                    status |-> "ok", value |-> None]
         /\ Become(SegFreqNew(size, step))

(* add with any tuple: get_segment_pos raises for one without a node *)
add_any(segment, count) ==
    IF SegmentIsMalformed(segment)
    THEN /\ ret' = [op |-> "add", args |-> <<>>, status |-> "ValueError",
                    value |-> None]
         /\ UNCHANGED <<segment_size, segment_step, segments, max_segpos>>
    ELSE add(segment, count)

update(other) ==
    IF UpdateRejects(Self, other)
    THEN /\ ret' = [op |-> "update",
                    args |-> <<other.segment_size, other.segment_step>>,
                    status |-> "ValueError", value |-> None]
         /\ UNCHANGED <<segment_size, segment_step, segments, max_segpos>>
    ELSE /\ ret' = [op |-> "update",
                    args |-> <<other.segment_size, other.segment_step>>,
                    status |-> "ok", value |-> None]
         /\ Become(Updated(Self, other))

----------------------------------------------------------------------------
(* The store on its own: add, update, dump and load of what was dumped    *)

UpdatedCounts == {1, 2, 3}

StorePool ==
    { Seg(1, <<"A", "C", "G", "T">>),
      Seg(1, <<".", "C", "-", "T">>),
      <<PosNA(1, 0, "A"), PosNA(1, 1, "G"), PosNA(1, 2, "T"),
        PosNA(2, 0, "C")>>,
      <<PosNA(1, 0, "A"), PosNA(1, 1, "G"), None, PosNA(3, 0, "G")>>,
      Seg(3, <<"G", "T", ".", ".">>),
      Seg(3, <<".", ".", "A", "C">>),
      Seg(1, <<".", ".", ".", ".">>),
      <<PosNA(2, 1, "A"), PosNA(3, 0, "G"), PosNA(4, 0, "T"), None>>,
      <<None, PosNA(3, 1, "A"), PosNA(4, 0, "T"), None>> }

OtherPool ==
    { SegFreqNew(4, 2),
      Added(SegFreqNew(4, 2), Seg(1, <<"A", "C", "G", "T">>), 1),
      Added(Added(SegFreqNew(4, 2), Seg(3, <<"G", "T", ".", ".">>), 2),
            Seg(1, <<".", "C", "-", "T">>), 1),
      Added(SegFreqNew(4, 1), Seg(3, <<".", ".", "A", "C">>), 1),
      Added(SegFreqNew(5, 3), Seg(1, <<"A", "C", "G", "T", "A">>), 1) }

StoreCounts(sf) ==
    UNION { {sf.segments[p][i].v : i \in DOMAIN sf.segments[p]} :
            p \in DOMAIN sf.segments }

StoreEntries(sf) ==
    SumOver([p \in DOMAIN sf.segments |-> Len(sf.segments[p])],
            DOMAIN sf.segments)

StoreBounded(sf) ==
    /\ StoreCounts(sf) \subseteq UpdatedCounts
    /\ StoreEntries(sf) <= MaxAdds

StoreIdle == ret.op \in {"__init__", "add", "update", "load"}

StoreAdd(pool) ==
    \E segment \in pool, count \in Counts :
        /\ IF SegmentIsMalformed(segment) THEN TRUE
           ELSE /\ CGet(SegmentsAt(get_segment_pos(segment)), segment) + count
                       \in Counts
                /\ \/ CHas(SegmentsAt(get_segment_pos(segment)), segment)
                   \/ NumEntries < MaxAdds
        /\ add_any(segment, count)
        /\ UNCHANGED <<cda_vars, env_vars>>

StoreUpdate(pool) ==
    \E other \in pool :
        /\ IF UpdateRejects(Self, other) THEN TRUE
           ELSE StoreBounded(Updated(Self, other))
        /\ update(other)
        /\ UNCHANGED <<cda_vars, env_vars>>

StoreDump == StoreIdle /\ dump /\ UNCHANGED <<cda_vars, env_vars>>

Dumped == IF ret.op = "dump" THEN {ret.value} ELSE {}

StoreLoad(files) ==
    \E file \in files :
        /\ StoreBounded(load_result(file))
        /\ load(file)
        /\ UNCHANGED <<cda_vars, env_vars>>

InitStore == NoSegFreq(4, 2) /\ NoCda /\ NoEnv

NextStore ==
    \/ StoreAdd(StorePool)
    \/ StoreUpdate(OtherPool)
    \/ StoreDump
    \/ StoreLoad(Dumped)

SpecStore == InitStore /\ [][NextStore]_vars

----------------------------------------------------------------------------
(* Round trip through the segfreq file *)

(* number of slots before slot i that stand for a reference position *)
PositionSlotsBefore(segment, i) ==
    Cardinality({j \in 1..(i - 1) : segment[j] = None \/ segment[j].bp = 0})

WellFormedSlot(segment, i) ==
    IF segment[i] = None THEN TRUE
    ELSE IF segment[i].bp = 0
    THEN segment[i].pos
             = get_segment_pos(segment) + PositionSlotsBefore(segment, i)
    ELSE /\ i > 1
         /\ segment[i - 1] # None
         /\ segment[i - 1].pos = segment[i].pos
         /\ segment[i - 1].bp = segment[i].bp - 1

WellFormedSegment(segment) ==
    /\ ~SegmentIsMalformed(segment)
    /\ \A i \in DOMAIN segment : WellFormedSlot(segment, i)

StoredSegments(sf) ==
    UNION {CKeys(sf.segments[p]) : p \in DOMAIN sf.segments}

AllWellFormed(sf) == \A segment \in StoredSegments(sf) : WellFormedSegment(segment)

SameSegments(a, b) ==
    /\ DOMAIN a.segments = DOMAIN b.segments
    /\ \A p \in DOMAIN a.segments :
           CDict(a.segments[p]) = CDict(b.segments[p])

SameSegFreq(a, b) ==
    /\ a.segment_size = b.segment_size
    /\ a.segment_step = b.segment_step
    /\ SameSegments(a, b)

JustDumped == ret.op = "dump" /\ AllWellFormed(Self)

(* C11: once a SegFreq holding only well-formed segments has been dumped,  *)
(* loading the dumped file gives a SegFreq with the same segment_size and  *)
(* segment_step and, under every anchor position, the same segments with   *)
(* the same counts                                                         *)
C11_RoundTrip == JustDumped => SameSegFreq(load_result(ret.value), Self)

C11_Witness ==
    /\ JustDumped
    /\ CGet(SegmentsAt(1), Seg(1, <<".", "C", "-", "T">>)) = 2
    /\ \E segment \in StoredSegments(Self) :
           \E i \in DOMAIN segment : segment[i] # None /\ segment[i].bp = 2

----------------------------------------------------------------------------
(* Merging *)

Compatible(a, b) ==
    a.segment_size = b.segment_size /\ a.segment_step = b.segment_step

SameStore(a, b) == SameSegments(a, b) /\ a.max_segpos = b.max_segpos

MergeOrdersAgree(a, b, c) ==
    /\ SameStore(Updated(Updated(a, b), c), Updated(a, Updated(b, c)))
    /\ SameStore(Updated(Updated(a, b), c), Updated(Updated(c, a), b))

(* C12: for the SegFreq at hand a and all compatible SegFreqs b and c,    *)
(* updating in the orders (a+b)+c, a+(b+c) and c+a+b gives the same count *)
(* for every (position, segment) and the same largest anchor              *)
C12_MergeOrders ==
    \A b \in OtherPool, c \in OtherPool :
        Compatible(Self, b) /\ Compatible(Self, c)
            => MergeOrdersAgree(Self, b, c)

C12_Witness ==
    /\ ret.op = "update"
    /\ ret.status = "ok"
    /\ CGet(SegmentsAt(1), Seg(1, <<"A", "C", "G", "T">>)) = 3
    /\ max_segpos = 3

UpdateStep == ret'.op = "update"

IncompatibleUpdate ==
    /\ UpdateStep
    /\ ret'.args[1] # segment_size \/ ret'.args[2] # segment_step

(* C13: an update whose other SegFreq differs in segment_size or in        *)
(* segment_step is rejected with an error and leaves the segments of the   *)
(* receiving SegFreq as they were                                          *)
C13_AsStated ==
    [][IncompatibleUpdate
           => ret'.status = "ValueError" /\ segments' = segments]_vars

----------------------------------------------------------------------------
(* Malformed segments *)

FirstNodeIndex(segment) == Min({i \in DOMAIN segment : segment[i] # None})

LeadsWithInsertion(segment) ==
    /\ ~SegmentIsMalformed(segment)
    /\ segment[FirstNodeIndex(segment)].bp > 0

StoreUnchanged ==
    UNCHANGED <<segment_size, segment_step, segments, max_segpos>>

AddStep(segment, count) == ret'.op = "add" /\ add_any(segment, count)

StoredUnder(segment, count) ==
    LET pos == segment[FirstNodeIndex(segment)].pos
                   - (FirstNodeIndex(segment) - 1)
    IN  /\ ret'.status = "ok"
        /\ pos \in DOMAIN segments'
        /\ CGet(segments'[pos], segment) = CGet(SegmentsAt(pos), segment) + count

AddOutcome(segment, count) ==
    IF SegmentIsMalformed(segment) \/ LeadsWithInsertion(segment)
    THEN ret'.status = "ValueError" /\ StoreUnchanged
    ELSE StoredUnder(segment, count)

(* C19: add of a segment whose slots are all None, or whose first node is *)
(* an insertion (ins_idx > 0), raises and leaves the SegFreq unchanged; a *)
(* segment whose first node, after i leading None slots, has ins_idx 0 is *)
(* accepted and counted under the anchor node.pos - i                     *)
C19_AsStated ==
    [][\A segment \in StorePool, count \in Counts :
           AddStep(segment, count) => AddOutcome(segment, count)]_vars

----------------------------------------------------------------------------
(* Construction, directly and through load, with every other operation *)

SizeTexts == {<<"3">>, <<"0", "4">>}
StepTexts == {<<"0">>, <<"3">>, <<"-", "1">>}

LoadRowPool ==
    { <<>>,
      << [pos |-> <<"1">>, segment |-> <<"A", "C", "G">>,
          offsets |-> <<"+", ".">>, count |-> <<"2">>] >>,
      << [pos |-> <<"1">>, segment |-> <<".", ".", ".">>,
          offsets |-> <<".", ".">>, count |-> <<"1">>] >> }

LoadCommentPool ==
    { <<>> }
    \cup { << [key |-> "segment_size", val |-> size] >> : size \in SizeTexts }
    \cup { << [key |-> "segment_step", val |-> step],
              [key |-> "segment_size", val |-> size] >> :
              size \in SizeTexts, step \in StepTexts }

LoadPool ==
    { [comments |-> comments,
       header |-> <<"pos", "segment", "offsets", "count">>,
       rows |-> rows] : comments \in LoadCommentPool, rows \in LoadRowPool }

BuildPool ==
    { Seg(1, <<"A", "C", "G", "T">>),
      Seg(3, <<"G", "T", ".", ".">>),
      Seg(1, <<".", ".", ".", ".">>) }

BuildNew ==
    \E size \in 3..4, step \in 0..3 :
        new(size, step) /\ UNCHANGED <<cda_vars, env_vars>>

BuildGetFrequency ==
    \E positions \in {<<1>>, <<2, 3>>} :
        StoreIdle /\ get_frequency(positions, 3) /\ UNCHANGED <<cda_vars, env_vars>>

BuildGetPosNas == StoreIdle /\ get_pos_nas(3) /\ UNCHANGED <<cda_vars, env_vars>>

BuildGetConsensus ==
    StoreIdle /\ get_consensus(1, 4, 100) /\ UNCHANGED <<cda_vars, env_vars>>

BuildGetPatterns == StoreIdle /\ get_patterns(1, 4, 1) /\ UNCHANGED <<cda_vars, env_vars>>

NextBuild ==
    \/ BuildNew
    \/ StoreLoad(LoadPool \cup Dumped)
    \/ StoreAdd(BuildPool)
    \/ StoreUpdate(OtherPool)
    \/ StoreDump
    \/ BuildGetFrequency
    \/ BuildGetPosNas
    \/ BuildGetConsensus
    \/ BuildGetPatterns

SpecBuild == InitStore /\ [][NextBuild]_vars

SizesValid == segment_step >= 1 /\ segment_size - segment_step >= 2

ConstructionStep == ret'.op \in {"__init__", "load"}

BadSizes(size, step) == step < 1 \/ size - step < 2

Constructed ==
    /\ BadSizes(ret'.args[1], ret'.args[2])
           => ret'.status = "ValueError" /\ StoreUnchanged
    /\ ret'.op = "__init__" /\ ~BadSizes(ret'.args[1], ret'.args[2])
           => ret'.status = "ok"
    /\ ret'.status = "ok"
           => segment_size' = ret'.args[1] /\ segment_step' = ret'.args[2]

SizesStep ==
    IF ConstructionStep THEN Constructed
    ELSE UNCHANGED <<segment_size, segment_step>>

(* C18: in every reachable state segment_step >= 1 and segment_size -     *)
(* segment_step >= 2; a construction, directly or through load, with      *)
(* step < 1 or size - step < 2 is rejected and one with difference 2 is   *)
(* accepted; add, update, dump and the queries leave both numbers alone   *)
C18_Sizes == []SizesValid /\ [][SizesStep]_vars

C18_Witness ==
    /\ ret.op = "load"
    /\ ret.status = "ValueError"
    /\ ret.args = <<4, 3>>
    /\ segment_size = 3
    /\ segment_step = 1
    /\ NumEntries > 0

----------------------------------------------------------------------------
(* iter_single_read_posnas: one read's aligned pairs to PosNAs.  An       *)
(* aligned pair is [seqpos0, refpos0], both 0-based; an absent side       *)
(* (Python's None) is written -1                                          *)

IsAbsent(idx) == idx < 0

NextInsidx(pair, insidx) == IF IsAbsent(pair.refpos0) THEN insidx + 1 ELSE 0

NextRefpos_ZeroBased(pair, prev_refpos) ==
    IF IsAbsent(pair.refpos0) THEN prev_refpos ELSE pair.refpos0

NextRefpos(pair, prev_refpos) ==
    IF IsAbsent(pair.refpos0) THEN prev_refpos ELSE pair.refpos0 + 1

ReadNA(seqchars, pair) ==
    IF IsAbsent(pair.seqpos0) THEN GAP ELSE seqchars[pair.seqpos0 + 1]

NextBuffer_NoReset(insidx, buffer_size) ==
    IF insidx > 0 THEN buffer_size + 1 ELSE buffer_size

NextBuffer(insidx, buffer_size) ==
    IF insidx > 0 THEN buffer_size + 1 ELSE 0

(* the loop: the list built so far and the length of its trailing run of  *)
(* insertions                                                             *)
RECURSIVE ReadPass(_, _, _, _, _, _)
ReadPass(seqchars, pairs, insidx, prev_refpos, buffer_size, posnas) ==
    IF pairs = <<>> THEN [posnas |-> posnas, buffer_size |-> buffer_size]
    ELSE IF NextRefpos(Head(pairs), prev_refpos) = 0
    THEN ReadPass(seqchars, Tail(pairs), NextInsidx(Head(pairs), insidx),
                  NextRefpos(Head(pairs), prev_refpos), buffer_size, posnas)
    ELSE ReadPass(seqchars, Tail(pairs), NextInsidx(Head(pairs), insidx),
                  NextRefpos(Head(pairs), prev_refpos),
                  NextBuffer(NextInsidx(Head(pairs), insidx), buffer_size),
                  Append(posnas,
                         PosNA(NextRefpos(Head(pairs), prev_refpos),
                               NextInsidx(Head(pairs), insidx),
                               ReadNA(seqchars, Head(pairs)))))

ReadTrimmed(pass) ==
    SubSeq(pass.posnas, 1, Len(pass.posnas) - pass.buffer_size)

iter_single_read_posnas(seq, aligned_pairs) ==
    ReadTrimmed(ReadPass(seq, aligned_pairs, 0, 0, 0, <<>>))

----------------------------------------------------------------------------
(* Reads: every list of at most MaxOps alignment operations, from a       *)
(* reference start, over one of three read sequences.  M: both sides, I:  *)
(* read only, D: reference only, X: neither side                          *)

MaxOps == 4

ReadOps == {"M", "I", "D", "X"}

RECURSIVE OpLists(_)
OpLists(n) ==
    IF n = 0 THEN {<<>>}
    ELSE OpLists(n - 1)
             \cup {Append(ops, op) : ops \in {l \in OpLists(n - 1) : Len(l) = n - 1},
                                     op \in ReadOps}

SeqConsumed(ops) == Len(SelectSeq(ops, LAMBDA op : op \in {"M", "I"}))
RefConsumed(ops) == Len(SelectSeq(ops, LAMBDA op : op \in {"M", "D"}))

PairAt(ops, i, ref_start) ==
    [seqpos0 |-> IF ops[i] \in {"M", "I"}
                 THEN SeqConsumed(SubSeq(ops, 1, i - 1)) ELSE -1,
     refpos0 |-> IF ops[i] \in {"M", "D"}
                 THEN ref_start + RefConsumed(SubSeq(ops, 1, i - 1)) ELSE -1]

AlignedPairs(ops, ref_start) ==
    [i \in DOMAIN ops |-> PairAt(ops, i, ref_start)]

ReadSeqs ==
    { <<"A", "C", "G", "T", "A">>, <<"C", "C", "A", "G", "T">>,
      <<"T", "G", "C", "A", "C">> }

ReadPosnas ==
    \E ops \in OpLists(MaxOps), ref_start \in 0..2, letters \in ReadSeqs :
        /\ ret.op = "__init__"
        /\ ret' = [op |-> "iter_single_read_posnas",
                   args |-> <<SubSeq(letters, 1, SeqConsumed(ops)),
                              AlignedPairs(ops, ref_start)>>,
                   status |-> "ok",
                   value |-> iter_single_read_posnas(
                                 SubSeq(letters, 1, SeqConsumed(ops)),
                                 AlignedPairs(ops, ref_start))]
        /\ UNCHANGED <<segment_size, segment_step, segments, max_segpos>>
        /\ UNCHANGED <<cda_vars, env_vars>>

NextReads == ReadPosnas

SpecReads == Init /\ [][NextReads]_vars

ReadDone == ret.op = "iter_single_read_posnas"
ReadSeq == ret.args[1]
ReadPairs == ret.args[2]

(* the PosNA the claim gives to a pair that has a reference index *)
Expected(seq, pair) ==
    PosNA(pair.refpos0 + 1, 0,
          IF pair.seqpos0 < 0 THEN "-" ELSE seq[pair.seqpos0 + 1])

WithReference(seq, pairs) ==
    LET kept == SelectSeq(pairs, LAMBDA pair : pair.refpos0 >= 0)
    IN  [i \in DOMAIN kept |-> Expected(seq, kept[i])]

NoIndels(pairs) ==
    \A i \in DOMAIN pairs : pairs[i].seqpos0 >= 0 /\ pairs[i].refpos0 >= 0

Bases(posnas) == [i \in DOMAIN posnas |-> posnas[i].na]

(* C14: the ins_idx = 0 entries of the output are, in order, one PosNA    *)
(* per aligned pair with a reference index, at ref_pos + 1, carrying the  *)
(* read base or '-' when the sequence index is absent; a read without     *)
(* indels gives len(seq) entries, all ins_idx = 0, spelling seq           *)
C14_Mapped ==
    ReadDone =>
        /\ SelectSeq(ret.value, LAMBDA posna : posna.bp = 0)
               = WithReference(ReadSeq, ReadPairs)
        /\ NoIndels(ReadPairs) /\ Len(ReadPairs) = Len(ReadSeq)
               => /\ Len(ret.value) = Len(ReadSeq)
                  /\ \A i \in DOMAIN ret.value : ret.value[i].bp = 0
                  /\ Bases(ret.value) = ReadSeq

C14_Witness ==
    /\ ReadDone
    /\ Len(ReadPairs) = 4
    /\ \E i \in DOMAIN ReadPairs : ReadPairs[i].seqpos0 < 0
    /\ \E i \in DOMAIN ReadPairs : ReadPairs[i].refpos0 < 0
    /\ Len(WithReference(ReadSeq, ReadPairs)) = 3

ForwardPass == ReadPass(ReadSeq, ReadPairs, 0, 0, 0, <<>>).posnas

RECURSIVE WithoutTrailingInsertions(_)
WithoutTrailingInsertions(posnas) ==
    IF posnas = <<>> THEN <<>>
    ELSE IF posnas[Len(posnas)].bp = 0 THEN posnas
    ELSE WithoutTrailingInsertions(SubSeq(posnas, 1, Len(posnas) - 1))

(* C15: a returned list that is not empty ends with an ins_idx = 0 entry, *)
(* and it is the list built by the loop without its whole trailing run of *)
(* ins_idx > 0 entries, nothing else removed                              *)
C15_Stripped ==
    ReadDone =>
        /\ ret.value # <<>> => ret.value[Len(ret.value)].bp = 0
        /\ ret.value = WithoutTrailingInsertions(ForwardPass)

C15_Witness ==
    /\ ReadDone
    /\ ret.value # <<>>
    /\ Len(ForwardPass) = Len(ret.value) + 2
    /\ Len(ret.value) = 2

BothAbsent(pair) == pair.seqpos0 < 0 /\ pair.refpos0 < 0

(* C16: the output holds no PosNA with ins_idx > 0 and base '-', and it   *)
(* is what the same list without its both-sides-absent pairs gives        *)
C16_AsStated ==
    ReadDone =>
        /\ \A i \in DOMAIN ret.value :
               ~(ret.value[i].bp > 0 /\ ret.value[i].na = "-")
        /\ ret.value
               = iter_single_read_posnas(
                     ReadSeq,
                     SelectSeq(ReadPairs, LAMBDA pair : ~BothAbsent(pair)))

----------------------------------------------------------------------------
(* merge_posnas on its own: every pair of PosNAs over two positions, two  *)
(* insertion indices and the sixteen nucleotide letters                   *)

MergeNAs ==
    {"A", "C", "G", "T", "-", "W", "S", "M", "K", "R", "Y", "B", "D", "H",
     "V", "N"}

MergePosNAs ==
    {PosNA(pos, bp, na) : pos \in {10, 11}, bp \in {0, 1}, na \in MergeNAs}

MergePosnas ==
    \E posna1 \in MergePosNAs, posna2 \in MergePosNAs :
        /\ ret.op = "__init__"
        /\ ret' = [op |-> "merge_posnas", args |-> <<posna1, posna2>>,
                   status |-> IF IsRaised(merge_posnas(posna1, posna2))
                              THEN merge_posnas(posna1, posna2).na ELSE "ok",
                   value |-> merge_posnas(posna1, posna2)]
        /\ UNCHANGED <<segment_size, segment_step, segments, max_segpos>>
        /\ UNCHANGED <<cda_vars, env_vars>>

NextMerge == MergePosnas

SpecMerge == Init /\ [][NextMerge]_vars

Merged == ret.op = "merge_posnas"

(* the bases an IUPAC letter stands for *)
Iupac ==
    [na \in MergeNAs \ {"-"} |->
        CASE na = "A" -> {"A"} [] na = "C" -> {"C"}
          [] na = "G" -> {"G"} [] na = "T" -> {"T"}
          [] na = "W" -> {"A", "T"} [] na = "S" -> {"C", "G"}
          [] na = "M" -> {"A", "C"} [] na = "K" -> {"G", "T"}
          [] na = "R" -> {"A", "G"} [] na = "Y" -> {"C", "T"}
          [] na = "B" -> {"C", "G", "T"} [] na = "D" -> {"A", "G", "T"}
          [] na = "H" -> {"A", "C", "T"} [] na = "V" -> {"A", "C", "G"}
          [] na = "N" -> {"A", "C", "G", "T"}]

MergedBase(na1, na2) ==
    IF na1 = "-" \/ na2 = "-" THEN "-"
    ELSE IF na1 = na2 THEN na1
    ELSE CHOOSE na \in DOMAIN Iupac : Iupac[na] = Iupac[na1] \cup Iupac[na2]

MergedAs(posna1, posna2, merged) ==
    IF posna1.pos # posna2.pos \/ posna1.bp # posna2.bp
    THEN ret.status = "ValueError"
    ELSE /\ ret.status = "ok"
         /\ merged = PosNA(posna1.pos, posna1.bp,
                           MergedBase(posna1.na, posna2.na))

(* C17: merging two PosNAs of equal position and insertion index gives,   *)
(* at that position and index, '-' if either is '-', the common base if   *)
(* they are identical, else the IUPAC letter of the union of the bases    *)
(* the two letters stand for; unequal position or index is an error       *)
C17_Merged == Merged => MergedAs(ret.args[1], ret.args[2], ret.value)

C17_Witness ==
    /\ Merged
    /\ ret.args[1] = PosNA(10, 0, "W")
    /\ ret.args[2] = PosNA(10, 0, "M")
    /\ ret.value = PosNA(10, 0, "H")

----------------------------------------------------------------------------
(* iter_codfreq: the codon-frequency rows of one reference, read from its *)
(* segfreq file.  A derived fragment is [geneName, codfreq, refRanges],   *)
(* codfreq telling whether 'codfreq' is among its outputs                 *)

RECURSIVE RangePositions(_)
RangePositions(refRanges) ==
    IF refRanges = <<>> THEN <<>>
    ELSE [i \in 1..(Head(refRanges)[2] - Head(refRanges)[1] + 1) |->
             Head(refRanges)[1] + i - 1]
             \o RangePositions(Tail(refRanges))

RECURSIVE chunked(_, _)
chunked(positions, n) ==
    IF positions = <<>> THEN <<>>
    ELSE IF Len(positions) <= n THEN <<positions>>
    ELSE <<SubSeq(positions, 1, n)>>
             \o chunked(SubSeq(positions, n + 1, Len(positions)), n)

FrequencyItems(positions) ==
    CountNAs(SegmentsAt(FrequencySegpos(positions)), positions, <<>>)

CodfreqRows(gene, offset, items) ==
    [i \in DOMAIN items |->
        [gene |-> gene, position |-> offset, total |-> CTotal(items),
         codon |-> items[i].k, count |-> items[i].v]]

RECURSIVE FragmentRows(_, _, _, _)
FragmentRows(gene, chunks, offset, out) ==
    IF chunks = <<>> THEN out
    ELSE IF TooFarApart(PadPositions(Head(chunks), 3))
    THEN [rows |-> out.rows, status |-> "ValueError"]
    ELSE FragmentRows(gene, Tail(chunks), offset + 1,
             [rows |-> out.rows
                  \o CodfreqRows(gene, offset,
                         FrequencyItems(PadPositions(Head(chunks), 3))),
              status |-> "ok"])

RECURSIVE AllFragmentRows(_, _)
AllFragmentRows(fragments, out) ==
    IF fragments = <<>> \/ out.status # "ok" THEN out
    ELSE IF ~Head(fragments).codfreq
    THEN AllFragmentRows(Tail(fragments), out)
    ELSE AllFragmentRows(
             Tail(fragments),
             FragmentRows(
                 Head(fragments).geneName,
                 chunked(RangePositions(Head(fragments).refRanges), 3),
                 1, out))

CodfreqReturn(fragments, out) ==
    [op |-> "iter_codfreq", args |-> fragments, status |-> out.status,
     value |-> out.rows]

iter_codfreq_result(fragments) ==
    CodfreqReturn(fragments,
                  AllFragmentRows(fragments,
                                  [rows |-> <<>>, status |-> "ok"]))

(* the loop of iter_codfreq, on the SegFreq that SegFreq.load returned *)
iter_codfreq(fragments) ==
    /\ ret' = iter_codfreq_result(fragments)
    /\ UNCHANGED <<segment_size, segment_step, segments, max_segpos>>

----------------------------------------------------------------------------
(* Profiles: one or two derived fragments over the reference, of one gene *)
(* or of two                                                              *)

Fragment(gene, codfreq, refRanges) ==
    [geneName |-> gene, codfreq |-> codfreq, refRanges |-> refRanges]

ProfilePool ==
    { << Fragment("G1", TRUE, << <<1, 3>> >>) >>,
      << Fragment("G1", TRUE, << <<1, 3>>, <<4, 6>> >>) >>,
      << Fragment("G1", TRUE, << <<1, 3>> >>),
         Fragment("G1", TRUE, << <<4, 6>> >>) >>,
      << Fragment("G1", TRUE, << <<1, 3>> >>),
         Fragment("G2", TRUE, << <<3, 5>> >>) >>,
      << Fragment("G1", FALSE, << <<1, 3>> >>),
         Fragment("G1", TRUE, << <<3, 6>> >>) >>,
      << Fragment("G1", TRUE, << <<1, 2>>, <<6, 6>> >>) >> }

(* iter_codfreq opens the segfreq file that dump wrote, loads it and runs *)
(* its loop on what load returned                                        *)
CodfreqLoad == StoreLoad(Dumped)

IterCodfreq ==
    \E fragments \in ProfilePool :
        /\ ret.op = "load" /\ ret.status = "ok"
        /\ iter_codfreq(fragments)
        /\ UNCHANGED <<cda_vars, env_vars>>

NextCodfreq ==
    \/ Add(SegmentPool)
    \/ StoreDump
    \/ CodfreqLoad
    \/ IterCodfreq

SpecCodfreq == Init /\ [][NextCodfreq]_vars

RowsOf(rows, gene, position) ==
    SelectSeq(rows, LAMBDA row : row.gene = gene /\ row.position = position)

CountSum(rows) == SumSeq([i \in DOMAIN rows |-> rows[i].count])

(* C20: in the rows emitted for a profile, the counts of the rows of one  *)
(* (gene, position) add up to the total carried by each of those rows     *)
C20_AsStated ==
    ret.op = "iter_codfreq" =>
        \A i \in DOMAIN ret.value :
            CountSum(RowsOf(ret.value, ret.value[i].gene,
                            ret.value[i].position))
                = ret.value[i].total

----------------------------------------------------------------------------
(* chunked_samfile (codfreq/samfile_helper.py).  A BAM is the sequence of *)
(* its records, each with the number of bytes it takes; the reader's      *)
(* tell() after i records is the bytes of these, counted from the first   *)
(* record                                                                 *)

Tell(bam, i) == SumSeq([k \in 1..i |-> bam[k].bytes])

RECURSIVE ChunkedFrom(_, _, _, _, _, _)
ChunkedFrom(bam, chunk_size, i, cur_begin, cur_chunk_size, chunks) ==
    IF i > Len(bam)
    THEN IF Tell(bam, Len(bam)) > cur_begin
         THEN Append(chunks, <<cur_begin, Tell(bam, Len(bam))>>)
         ELSE chunks
    ELSE IF cur_chunk_size + 1 = chunk_size
    THEN ChunkedFrom(bam, chunk_size, i + 1, Tell(bam, i), 0,
                     Append(chunks, <<cur_begin, Tell(bam, i)>>))
    ELSE ChunkedFrom(bam, chunk_size, i + 1, cur_begin, cur_chunk_size + 1,
                     chunks)

chunked_samfile(bam, chunk_size) ==
    ChunkedFrom(bam, chunk_size, 1, Tell(bam, 0), 0, <<>>)

----------------------------------------------------------------------------
(* sam2segfreq_between (codfreq/sam2segfreq.py): one read's sliding       *)
(* window.  An item of the window is [pos, posna]                         *)

WindowItem(posnas, i) ==
    IF i <= Len(posnas)
    THEN [pos |-> posnas[i].pos, posna |-> posnas[i]]
    ELSE [pos |-> posnas[Len(posnas)].pos + (i - Len(posnas)), posna |-> None]

(* posnas followed by post_posnas: range(last_pos + 1, last_pos + size - 1) *)
WindowItems(posnas, size) ==
    [i \in 1..(Len(posnas) + Max({0, size - 2})) |-> WindowItem(posnas, i)]

RECURSIVE PopLeft(_, _)
PopLeft(segment_deque, segment_pos) ==
    IF segment_deque # <<>> /\ Head(segment_deque).pos = segment_pos
    THEN PopLeft(Tail(segment_deque), segment_pos)
    ELSE segment_deque

DequeSegment(segment_deque) ==
    [i \in DOMAIN segment_deque |-> segment_deque[i].posna]

Windows(status, out) == [status |-> status, segments |-> out]

(* the else clause of the for loop *)
WindowLast(size, segment_pos, pos, segment_deque, out) ==
    IF segment_pos > 0 /\ pos - segment_pos + 1 > size
    THEN Windows("ValueError", out)
    ELSE IF segment_pos > 0 /\ pos - segment_pos + 1 = size
    THEN Windows("ok", Append(out, DequeSegment(segment_deque)))
    ELSE Windows("ok", out)

RECURSIVE WindowLoop(_, _, _, _, _, _)
WindowLoop(items, size, segment_pos, pos, segment_deque, out) ==
    IF items = <<>>
    THEN WindowLast(size, segment_pos, pos, segment_deque, out)
    ELSE IF segment_pos = 0
    THEN WindowLoop(Tail(items), size, Head(items).pos, Head(items).pos,
                    Append(segment_deque, Head(items)), out)
    ELSE IF Head(items).pos - segment_pos > size
    THEN Windows("ValueError", out)
    ELSE IF Head(items).pos - segment_pos = size
    THEN IF PopLeft(segment_deque, segment_pos) = <<>>
         THEN Windows("IndexError", Append(out, DequeSegment(segment_deque)))
         ELSE WindowLoop(Tail(items), size,
                         Head(PopLeft(segment_deque, segment_pos)).pos,
                         Head(items).pos,
                         Append(PopLeft(segment_deque, segment_pos),
                                Head(items)),
                         Append(out, DequeSegment(segment_deque)))
    ELSE WindowLoop(Tail(items), size, segment_pos, Head(items).pos,
                    Append(segment_deque, Head(items)), out)

(* the body of the loop over reads: the tuples it hands to segfreq.add *)
ReadSegments(seq, aligned_pairs, size) ==
    IF seq = <<>> THEN Windows("ok", <<>>)
    ELSE IF iter_single_read_posnas(seq, aligned_pairs) = <<>>
    THEN Windows("IndexError", <<>>)
    ELSE WindowLoop(WindowItems(iter_single_read_posnas(seq, aligned_pairs),
                                size),
                    size, 0, 0, <<>>, <<>>)

RECURSIVE AddedAll(_, _)
AddedAll(sf, segs) ==
    IF segs = <<>> THEN sf
    ELSE AddedAll(Added(sf, Head(segs), 1), Tail(segs))

(* the records a worker takes after seek(samfile_start): it stops at the  *)
(* first one after which tell() exceeds samfile_end                       *)
RECURSIVE ChunkRecords(_, _, _, _)
ChunkRecords(bam, i, samfile_start, samfile_end) ==
    IF i > Len(bam) THEN <<>>
    ELSE IF Tell(bam, i - 1) < samfile_start
    THEN ChunkRecords(bam, i + 1, samfile_start, samfile_end)
    ELSE IF Tell(bam, i) > samfile_end THEN <<>>
    ELSE <<i>> \o ChunkRecords(bam, i + 1, samfile_start, samfile_end)

(* SegFreq.__init__(self, segment_size, segment_step): a call that does   *)
(* not give both raises TypeError                                         *)
InitParams == <<"segment_size", "segment_step">>

CallRejects(call_args) == Len(call_args) # Len(InitParams)

SegFreqCall(call_args) ==
    IF CallRejects(call_args)
    THEN [status |-> "TypeError", value |-> None]
    ELSE IF ConstructorRejects(call_args[1], call_args[2])
    THEN [status |-> "ValueError", value |-> None]
    ELSE [status |-> "ok", value |-> SegFreqNew(call_args[1], call_args[2])]

RECURSIVE WorkerReads(_, _, _, _)
WorkerReads(bam, records, size, sf) ==
    IF records = <<>> THEN [status |-> "ok", value |-> sf]
    ELSE IF ReadSegments(bam[Head(records)].seq, bam[Head(records)].pairs,
                         size).status # "ok"
    THEN [status |-> ReadSegments(bam[Head(records)].seq,
                                  bam[Head(records)].pairs, size).status,
          value |-> None]
    ELSE WorkerReads(bam, Tail(records), size,
                     AddedAll(sf, ReadSegments(bam[Head(records)].seq,
                                               bam[Head(records)].pairs,
                                               size).segments))

(* segfreq = SegFreq(segment_size), then the loop over the chunk's reads *)
sam2segfreq_between_result(bam, samfile_start, samfile_end, size) ==
    IF SegFreqCall(<<size>>).status # "ok"
    THEN SegFreqCall(<<size>>)
    ELSE WorkerReads(bam, ChunkRecords(bam, 1, samfile_start, samfile_end),
                     size, SegFreqCall(<<size>>).value)

(* sam2segfreq: the chunks' SegFreqs folded in chunk order by update *)
RECURSIVE MergedChunks(_, _, _, _)
MergedChunks(bam, chunks, size, sf) ==
    IF chunks = <<>> THEN [status |-> "ok", value |-> sf]
    ELSE IF sam2segfreq_between_result(bam, Head(chunks)[1], Head(chunks)[2],
                                       size).status # "ok"
    THEN sam2segfreq_between_result(bam, Head(chunks)[1], Head(chunks)[2],
                                    size)
    ELSE MergedChunks(bam, Tail(chunks), size,
                      Updated(sf, sam2segfreq_between_result(
                                      bam, Head(chunks)[1], Head(chunks)[2],
                                      size).value))

sam2segfreq_result(bam, chunk_size, size) ==
    IF SegFreqCall(<<size>>).status # "ok"
    THEN SegFreqCall(<<size>>)
    ELSE MergedChunks(bam, chunked_samfile(bam, chunk_size), size,
                      SegFreqCall(<<size>>).value)

----------------------------------------------------------------------------
(* The driver over small BAMs.  The SegFreq of the state stands for the   *)
(* fragment's configuration: segmentSize and segmentStep of the profile   *)

Rec(bytes, seq, ops, ref_start) ==
    [bytes |-> bytes, seq |-> seq, pairs |-> AlignedPairs(ops, ref_start)]

RecordPool ==
    { Rec(4, <<"A", "C", "G", "T">>, <<"M", "M", "M", "M">>, 0),
      Rec(3, <<"G">>, <<"M">>, 2),
      Rec(5, <<"A", "C", "A">>, <<"M", "I", "M">>, 1),
      Rec(2, <<>>, <<"D">>, 0) }

BamPool == UNION {[1..n -> RecordPool] : n \in 0..3}

ChunkSizes == {1, 2, 3}

DriverConfigs == {<<3, 1>>, <<4, 1>>, <<4, 2>>}

DriverChunk ==
    \E bam \in BamPool, chunk_size \in ChunkSizes :
        /\ ret.op = "__init__"
        /\ ret' = [op |-> "chunked_samfile", args |-> <<bam, chunk_size>>,
                   status |-> "ok",
                   value |-> chunked_samfile(bam, chunk_size)]
        /\ UNCHANGED <<segment_size, segment_step, segments, max_segpos>>
        /\ UNCHANGED <<cda_vars, env_vars>>

DriverRead ==
    \E ops \in OpLists(MaxOps), ref_start \in 0..1, letters \in ReadSeqs :
        /\ ret.op = "__init__"
        /\ ret' = [op |-> "read",
                   args |-> <<SubSeq(letters, 1, SeqConsumed(ops)),
                              AlignedPairs(ops, ref_start)>>,
                   status |-> ReadSegments(SubSeq(letters, 1, SeqConsumed(ops)),
                                           AlignedPairs(ops, ref_start),
                                           segment_size).status,
                   value |-> ReadSegments(SubSeq(letters, 1, SeqConsumed(ops)),
                                          AlignedPairs(ops, ref_start),
                                          segment_size).segments]
        /\ UNCHANGED <<segment_size, segment_step, segments, max_segpos>>
        /\ UNCHANGED <<cda_vars, env_vars>>

DriverBetween ==
    \E bam \in BamPool, chunk_size \in ChunkSizes :
        \E i \in DOMAIN chunked_samfile(bam, chunk_size) :
            /\ ret.op = "__init__"
            /\ ret' = [op |-> "sam2segfreq_between",
                       args |-> <<bam, chunked_samfile(bam, chunk_size)[i]>>,
                       status |-> sam2segfreq_between_result(
                                      bam,
                                      chunked_samfile(bam, chunk_size)[i][1],
                                      chunked_samfile(bam, chunk_size)[i][2],
                                      segment_size).status,
                       value |-> sam2segfreq_between_result(
                                     bam,
                                     chunked_samfile(bam, chunk_size)[i][1],
                                     chunked_samfile(bam, chunk_size)[i][2],
                                     segment_size).value]
            /\ UNCHANGED <<segment_size, segment_step, segments, max_segpos>>
            /\ UNCHANGED <<cda_vars, env_vars>>

DriverSam2SegFreq ==
    \E bam \in BamPool, chunk_size \in ChunkSizes :
        /\ ret.op = "__init__"
        /\ ret' = [op |-> "sam2segfreq", args |-> <<bam, chunk_size>>,
                   status |-> sam2segfreq_result(bam, chunk_size,
                                                 segment_size).status,
                   value |-> sam2segfreq_result(bam, chunk_size,
                                                segment_size).value]
        /\ UNCHANGED <<segment_size, segment_step, segments, max_segpos>>
        /\ UNCHANGED <<cda_vars, env_vars>>

InitDriver ==
    /\ \E cfg \in DriverConfigs : NoSegFreq(cfg[1], cfg[2])
    /\ NoCda /\ NoEnv

NextDriver ==
    \/ DriverChunk
    \/ DriverRead
    \/ DriverBetween
    \/ DriverSam2SegFreq

SpecDriver == InitDriver /\ [][NextDriver]_vars

----------------------------------------------------------------------------
(* Chunked against single-pass ingestion *)

Sam2SegFreqDone == ret.op = "sam2segfreq"

(* the SegFreq one worker builds over the whole file *)
SinglePass(bam) ==
    sam2segfreq_between_result(bam, Tell(bam, 0), Tell(bam, Len(bam)),
                               segment_size)

(* every record of the BAM falls into exactly one chunk's range *)
IngestedOnce(bam, chunks) ==
    \A k \in DOMAIN bam :
        Cardinality({i \in DOMAIN chunks :
                        \E j \in DOMAIN ChunkRecords(bam, 1, chunks[i][1],
                                                     chunks[i][2]) :
                            ChunkRecords(bam, 1, chunks[i][1],
                                         chunks[i][2])[j] = k}) = 1

(* C21: for every BAM and every chunk size of at least 1 the driver's     *)
(* chunks take every record exactly once and the SegFreq it returns,      *)
(* merged from the per-chunk SegFreqs, equals the SegFreq of a single     *)
(* pass over the whole file                                               *)
C21_AsStated ==
    Sam2SegFreqDone =>
        /\ IngestedOnce(ret.args[1],
                        chunked_samfile(ret.args[1], ret.args[2]))
        /\ ret.status = "ok"
        /\ SinglePass(ret.args[1]).status = "ok"
        /\ SameStore(ret.value, SinglePass(ret.args[1]).value)

----------------------------------------------------------------------------
(* The segments one read contributes *)

ReadWindowed == ret.op = "read" /\ ret.status = "ok"

PositionSlots(segment) == PositionSlotsBefore(segment, Len(segment) + 1)

(* C25: every segment the driver adds for a read is anchored at a         *)
(* position congruent to 1 modulo segment_step and covers, insertion      *)
(* indices aside, exactly the segment_size positions from its anchor on   *)
C25_AsStated ==
    ReadWindowed =>
        \A i \in DOMAIN ret.value :
            /\ (get_segment_pos(ret.value[i]) - 1) % segment_step = 0
            /\ WellFormedSegment(ret.value[i])
            /\ PositionSlots(ret.value[i]) = segment_size

----------------------------------------------------------------------------
(* Depth at the positions of one read *)

(* the SegFreq of the fragment's configuration after the read's segments *)
ReadStore == AddedAll(SegFreqNew(segment_size, segment_step), ret.value)

ObservedPositions ==
    {iter_single_read_posnas(ret.args[1], ret.args[2])[i].pos :
        i \in DOMAIN iter_single_read_posnas(ret.args[1], ret.args[2])}

AnchorIn(sf, pos) ==
    IF pos - ((pos - 1) % sf.segment_step) > sf.max_segpos
    THEN sf.max_segpos
    ELSE pos - ((pos - 1) % sf.segment_step)

(* the sum of the counts get_pos_nas(pos) returns from sf *)
DepthIn(sf, pos) ==
    SumSeq([i \in DOMAIN SegmentsOf(sf, AnchorIn(sf, pos)) |->
               IF Observes(SegmentsOf(sf, AnchorIn(sf, pos))[i].k, pos)
               THEN SegmentsOf(sf, AnchorIn(sf, pos))[i].v ELSE 0])

(* C26: an ingested read is counted once at every reference position it  *)
(* observes, its last position and a read of a single position included  *)
C26_AsStated ==
    ReadWindowed =>
        \A r \in ObservedPositions : DepthIn(ReadStore, r) = 1

----------------------------------------------------------------------------
(* sam2segfreq_all (codfreq/sam2segfreq.py): the with block that persists *)
(* a SegFreq under name_segfreq(name, refname).  A line of the file is    *)
(* the sequence of its cells, a cell a text                               *)

CommentLine(comment) == << <<"#", " ", comment.key, "=">> \o comment.val >>

RowLine(row) == <<row.pos, row.segment, row.offsets, row.count>>

(* the rows csv_writer.writerow emits, in the order dump emits them *)
DumpLines(file) ==
    << CommentLine(file.comments[1]), CommentLine(file.comments[2]),
       [i \in DOMAIN file.header |-> <<file.header[i]>>] >>
        \o [i \in DOMAIN file.rows |-> RowLine(file.rows[i])]

(* open(path, 'w'): the path exists from here on, with no content *)
SidecarOpen ==
    /\ ~writer.open
    /\ sidecar' = [exists |-> TRUE, lines |-> <<>>]
    /\ writer' = [open |-> TRUE, pending |-> DumpLines(dump_result(Self))]
    /\ ret' = [op |-> "open", args |-> <<>>, status |-> "ok", value |-> None]
    /\ UNCHANGED <<segment_size, segment_step, segments, max_segpos>>
    /\ UNCHANGED <<cda_vars, taskmeta, requests, logs>>

(* one csv_writer.writerow of dump reaching the file *)
SidecarWrite ==
    /\ writer.open
    /\ writer.pending # <<>>
    /\ sidecar' = [sidecar EXCEPT !.lines = Append(@, Head(writer.pending))]
    /\ writer' = [writer EXCEPT !.pending = Tail(@)]
    /\ ret' = [op |-> "writerow", args |-> <<>>, status |-> "ok",
               value |-> None]
    /\ UNCHANGED <<segment_size, segment_step, segments, max_segpos>>
    /\ UNCHANGED <<cda_vars, taskmeta, requests, logs>>

(* dump returned: the with block closes the file *)
SidecarClose ==
    /\ writer.open
    /\ writer.pending = <<>>
    /\ writer' = [open |-> FALSE, pending |-> <<>>]
    /\ ret' = [op |-> "dump", args |-> <<>>, status |-> "ok", value |-> None]
    /\ UNCHANGED <<segment_size, segment_step, segments, max_segpos>>
    /\ UNCHANGED <<cda_vars, sidecar, taskmeta, requests, logs>>

(* a write fails (the disk is full, the process is interrupted): the with *)
(* block closes the file on what it holds and the error propagates        *)
SidecarFail ==
    /\ writer.open
    /\ writer.pending # <<>>
    /\ writer' = [open |-> FALSE, pending |-> <<>>]
    /\ ret' = [op |-> "dump", args |-> <<>>, status |-> "OSError",
               value |-> None]
    /\ UNCHANGED <<segment_size, segment_step, segments, max_segpos>>
    /\ UNCHANGED <<cda_vars, sidecar, taskmeta, requests, logs>>

SidecarAdd == ~writer.open /\ Add(SegmentPool)

NextSidecar ==
    \/ SidecarAdd
    \/ SidecarOpen
    \/ SidecarWrite
    \/ SidecarClose
    \/ SidecarFail

SpecSidecar == InitStore /\ [][NextSidecar]_vars

----------------------------------------------------------------------------
(* What the sidecar path holds over time *)

(* C22: the sidecar is replaced atomically: whenever what its path holds  *)
(* changes, it changes to the complete dump of the SegFreq being          *)
(* persisted, so that the path never shows a partly written file          *)
C22_AsStated ==
    [][sidecar' # sidecar =>
           sidecar' = [exists |-> TRUE,
                       lines |-> DumpLines(dump_result(Self))]]_vars

----------------------------------------------------------------------------
(* get_ref_fragments (codfreq/profile.py): the checks on one fragment     *)
(* config.  A Python value is its type t, its text s (the characters of   *)
(* a str, an output keyword written as one of them, the literal of a      *)
(* number) and its items v (of a list or tuple, the entries of a dict)    *)

Py(t, s, v) == [t |-> t, s |-> s, v |-> v]

PyList(items) == Py("list", <<>>, items)
PyTuple(items) == Py("tuple", <<>>, items)
PyDict(entries) == Py("dict", <<>>, entries)
PyStr(chars) == Py("str", chars, <<>>)
PyFloat(text) == Py("float", <<text>>, <<>>)
PyInt(text) == Py("int", <<text>>, <<>>)

(* isinstance(x, int) holds of bool as well *)
IsInt(x) == x.t \in {"int", "bool"}
IsFloat(x) == x.t = "float"
IsList(x) == x.t = "list"
IsDict(x) == x.t = "dict"

Iterable(x) == x.t \in {"list", "tuple", "str", "dict"}

(* what `for item in x` yields *)
Items(x) ==
    IF x.t = "str" THEN [i \in DOMAIN x.s |-> PyStr(<<x.s[i]>>)]
    ELSE IF x.t = "dict" THEN <<>>
    ELSE x.v

ConfigGet(config, key, default) ==
    IF key \in DOMAIN config THEN config[key] ELSE default

OutputKinds == {"codfreq", "nucfreq", "consensus", "patterns"}

InvalidOutput(output) ==
    ~(output.t = "str" /\ output.s \in {<<kind>> : kind \in OutputKinds})

(* 'consensusLevels' in output_options and not isinstance(..., list)      *)
(* and not all([isinstance(x, float) for x in ...]); the comprehension    *)
(* is reached only for a value that is not a list                         *)
LevelsReject(levels) ==
    /\ ~IsList(levels)
    /\ \/ ~Iterable(levels)
       \/ \E i \in DOMAIN Items(levels) : ~IsFloat(Items(levels)[i])

OptionsStatus(output_options) ==
    IF ~IsDict(output_options) THEN "TypeError"
    ELSE IF /\ "patternsTopNSeeds" \in DOMAIN output_options.v
            /\ ~IsInt(output_options.v["patternsTopNSeeds"])
    THEN "TypeError"
    ELSE IF /\ "consensusLevels" \in DOMAIN output_options.v
            /\ LevelsReject(output_options.v["consensusLevels"])
    THEN "TypeError"
    ELSE "ok"

OutputsStatus(outputs) ==
    IF ~IsList(outputs) THEN "TypeError"
    ELSE IF \E i \in DOMAIN outputs.v : InvalidOutput(outputs.v[i])
    THEN "ValueError"
    ELSE "ok"

FragmentStatus(config) ==
    IF OutputsStatus(ConfigGet(config, "outputs",
                               PyList(<<PyStr(<<"codfreq">>)>>))) # "ok"
    THEN OutputsStatus(ConfigGet(config, "outputs",
                                 PyList(<<PyStr(<<"codfreq">>)>>)))
    ELSE OptionsStatus(ConfigGet(config, "outputOptions",
                                 PyDict(<<>>)))

get_ref_fragments(config) ==
    /\ ret.op = "__init__"
    /\ ret' = [op |-> "get_ref_fragments", args |-> <<config>>,
               status |-> FragmentStatus(config), value |-> None]
    /\ UNCHANGED <<segment_size, segment_step, segments, max_segpos>>
    /\ UNCHANGED <<cda_vars, env_vars>>

----------------------------------------------------------------------------
(* Fragment configs: every combination of the values below, each key      *)
(* present or absent                                                      *)

Absent == Py("absent", <<>>, <<>>)

OutputsPool ==
    { Absent,
      PyList(<<PyStr(<<"codfreq">>), PyStr(<<"patterns">>)>>),
      PyList(<<PyStr(<<"consensus">>), PyStr(<<"fasta">>)>>),
      PyList(<<PyStr(<<"nucfreq">>), PyInt("1")>>),
      PyStr(<<"codfreq">>),
      PyTuple(<<PyStr(<<"codfreq">>)>>) }

TopNSeedsPool ==
    { Absent, PyInt("5"), Py("bool", <<"True">>, <<>>), PyStr(<<"5">>),
      PyFloat("5.0"), Py("NoneType", <<>>, <<>>) }

LevelsPool ==
    { Absent,
      PyList(<<PyFloat("0.05"), PyFloat("0.2")>>),
      PyList(<<>>),
      PyList(<<PyFloat("0.05"), PyStr(<<"x">>)>>),
      PyList(<<PyInt("1")>>),
      PyTuple(<<PyFloat("0.05")>>),
      PyStr(<<"a", "l", "l">>),
      PyStr(<<>>),
      PyFloat("0.05") }

Entries(pairs) ==
    [k \in {p[1] : p \in {q \in pairs : q[2] # Absent}} |->
        (CHOOSE p \in pairs : p[1] = k)[2]]

OptionsPool ==
    { PyDict(Entries({<<"patternsTopNSeeds", n>>,
                      <<"consensusLevels", l>>})) :
        n \in TopNSeedsPool, l \in LevelsPool }
      \cup {Absent, PyList(<<>>), PyStr(<<"x">>)}

ConfigPool ==
    { Entries({<<"outputs", o>>, <<"outputOptions", oo>>}) :
        o \in OutputsPool, oo \in OptionsPool }

ProfileCheck == \E config \in ConfigPool : get_ref_fragments(config)

NextProfile == ProfileCheck

SpecProfile == Init /\ [][NextProfile]_vars

----------------------------------------------------------------------------
(* Which configs get_ref_fragments turns down *)

ProfileChecked == ret.op = "get_ref_fragments"

GivenOutputs == ConfigGet(ret.args[1], "outputs", Absent)
GivenOptions == ConfigGet(ret.args[1], "outputOptions", Absent)

GivenOption(key) ==
    IF IsDict(GivenOptions) /\ key \in DOMAIN GivenOptions.v
    THEN GivenOptions.v[key] ELSE Absent

ListOfFloats(x) == IsList(x) /\ \A i \in DOMAIN x.v : IsFloat(x.v[i])

(* a type or enum violation as the claim lists them *)
Violation ==
    \/ /\ GivenOutputs # Absent
       /\ \/ ~IsList(GivenOutputs)
          \/ \E i \in DOMAIN GivenOutputs.v : InvalidOutput(GivenOutputs.v[i])
    \/ GivenOptions # Absent /\ ~IsDict(GivenOptions)
    \/ /\ GivenOption("patternsTopNSeeds") # Absent
       /\ ~IsInt(GivenOption("patternsTopNSeeds"))
    \/ /\ GivenOption("consensusLevels") # Absent
       /\ ~ListOfFloats(GivenOption("consensusLevels"))

(* C23: get_ref_fragments raises for every fragment config with a type or *)
(* enum violation: outputs not a list or holding a value outside codfreq, *)
(* nucfreq, consensus, patterns; outputOptions not a dict;                *)
(* patternsTopNSeeds not an integer; consensusLevels not a list of floats *)
C23_AsStated ==
    ProfileChecked /\ Violation => ret.status \in {"TypeError", "ValueError"}

----------------------------------------------------------------------------
(* get_patterns one iteration of its seed loop at a time: ret holds the   *)
(* counters of the call while it runs                                     *)

PatternsRunning == ret.op \in {"get_patterns:seeded", "get_patterns:iteration"}

(* the condition of `while seed_segments_pcnt and (top_n_seeds < 1 or ...)`; *)
(* an exception raised by an iteration leaves the loop as well            *)
PatternsContinues(st, top_n_seeds) ==
    /\ st.status = "ok"
    /\ st.seed_segments_pcnt # <<>>
    /\ (top_n_seeds < 1 \/ Len(st.patterns_pcnt) < top_n_seeds)

PatternsStart ==
    \E pos_start \in 1..MaxPos, pos_end \in 1..MaxPos, top_n \in TopNSeeds :
        /\ Idle
        /\ pos_start <= pos_end
        /\ ret' = [op |-> "get_patterns:seeded",
                   args |-> <<pos_start, pos_end, top_n>>,
                   status |-> "ok",
                   value |-> PatternsSeeded(pos_start, pos_end)]
        /\ UNCHANGED <<segment_size, segment_step, segments, max_segpos>>
        /\ UNCHANGED <<cda_vars, env_vars>>

PatternsStep ==
    /\ PatternsRunning
    /\ PatternsContinues(ret.value, ret.args[3])
    /\ ret' = [op |-> "get_patterns:iteration", args |-> ret.args,
               status |-> "ok",
               value |-> PatternsIteration(
                             ret.value, ret.args[1], ret.args[2],
                             PatternsRealStart(ret.args[1]),
                             PatternsRealEnd(ret.args[1], ret.args[2]))]
    /\ UNCHANGED <<segment_size, segment_step, segments, max_segpos>>
    /\ UNCHANGED <<cda_vars, env_vars>>

PatternsStop ==
    /\ PatternsRunning
    /\ ~PatternsContinues(ret.value, ret.args[3])
    /\ ret' = PatternsReturn(ret.value, ret.args)
    /\ UNCHANGED <<segment_size, segment_step, segments, max_segpos>>
    /\ UNCHANGED <<cda_vars, env_vars>>

(* the SegFreq is filled before the call, not during it *)
LoopAdd == Idle /\ Add(SegmentPool)

NextLoop ==
    \/ LoopAdd
    \/ PatternsStart
    \/ PatternsStep
    \/ PatternsStop

(* a call that has started runs on, nothing else shares its thread: weak  *)
(* fairness of PatternsStep, written with its enabling condition          *)
(* PatternsRunning /\ PatternsContinues and with the step told by the     *)
(* label it leaves in ret, and WF of PatternsStop                         *)
StepPending == PatternsRunning /\ PatternsContinues(ret.value, ret.args[3])

StepFair ==
    \/ []<>~StepPending
    \/ []<><<ret'.op = "get_patterns:iteration">>_vars

SpecLoop ==
    /\ Init
    /\ [][NextLoop]_vars
    /\ StepFair
    /\ WF_vars(PatternsStop)

----------------------------------------------------------------------------
(* Progress of the seed loop *)

SeedTotal(st) ==
    SumSeq([i \in DOMAIN st.seed_segments_ct |-> st.seed_segments_ct[i].v])

(* every seed held has a positive count and no negative fraction *)
SeedsPositive ==
    PatternsRunning =>
        /\ \A i \in DOMAIN ret.value.seed_segments_ct :
               ret.value.seed_segments_ct[i].v > 0
        /\ \A i \in DOMAIN ret.value.seed_segments_pcnt :
               ret.value.seed_segments_pcnt[i].v >= 0
        /\ CKeys(ret.value.seed_segments_ct)
               = CKeys(ret.value.seed_segments_pcnt)

(* an iteration that does not raise takes at least 1 off some seed *)
SeedsDecrease ==
    PatternsRunning /\ ret'.op = "get_patterns:iteration"
                    /\ ret'.value.status = "ok" =>
        /\ SeedTotal(ret'.value) < SeedTotal(ret.value)
        /\ CKeys(ret'.value.seed_segments_ct)
               \subseteq CKeys(ret.value.seed_segments_ct)
        /\ \A i \in DOMAIN ret'.value.seed_segments_ct :
               ret'.value.seed_segments_ct[i].v
                   <= CGet(ret.value.seed_segments_ct,
                           ret'.value.seed_segments_ct[i].k)

(* C24: get_patterns terminates for every SegFreq, range and top_n_seeds  *)
(* (top_n_seeds < 1 included): every iteration of the seed loop lowers    *)
(* the count of at least one seed by at least 1, a seed whose count       *)
(* reaches zero is removed, no count is ever negative, and the call       *)
(* returns                                                                *)
C24_Terminates ==
    /\ []SeedsPositive
    /\ [][SeedsDecrease]_vars
    /\ (PatternsRunning ~> ret.op = "get_patterns")

(* a call with top_n_seeds < 1 that returned after two iterations, each   *)
(* of which recorded a pattern                                            *)
C24_Witness ==
    /\ ret.op = "get_patterns"
    /\ ret.args[3] < 1
    /\ ret.status = "ok"
    /\ Len(ret.chains) >= 2

----------------------------------------------------------------------------
(* Trimming whole reference positions off a segment *)

(* the slots of one position: None, the ins_idx = 0 node alone, or the    *)
(* node followed by one or two insertion nodes                            *)
PositionGroup(pos, kind) ==
    CASE kind = "." -> <<None>>
      [] kind = "n" -> <<PosNA(pos, 0, "A")>>
      [] kind = "i" -> <<PosNA(pos, 0, "A"), PosNA(pos, 1, "C")>>
      [] kind = "j" -> <<PosNA(pos, 0, "A"), PosNA(pos, 1, "C"),
                         PosNA(pos, 2, "G")>>

GroupKinds == {".", "n", "i", "j"}

(* every segment of 1..MaxPositions positions starting at position 3 *)
TrimPool ==
    { Concat([i \in DOMAIN kinds |-> PositionGroup(2 + i, kinds[i])]) :
        kinds \in UNION {[1..k -> GroupKinds] : k \in 1..MaxPositions} }

(* n is a segment_step, which SegFreq.__init__ keeps at 1 or more *)
TrimCounts == 1..MaxPositions

Trimmed(op, segment, n, result) ==
    /\ ret.op = "__init__"
    /\ ret' = [op |-> op, args |-> <<segment, n>>,
               status |-> IF result = Malformed THEN "ValueError" ELSE "ok",
               value |-> result]
    /\ UNCHANGED <<segment_size, segment_step, segments, max_segpos>>
    /\ UNCHANGED <<cda_vars, env_vars>>

RemoveFirst ==
    \E segment \in TrimPool, n \in TrimCounts :
        Trimmed("remove_first_n_pos", segment, n,
                remove_first_n_pos(segment, n))

RemoveLast ==
    \E segment \in TrimPool, n \in TrimCounts :
        Trimmed("remove_last_n_pos", segment, n,
                remove_last_n_pos(segment, n))

NextTrim == RemoveFirst \/ RemoveLast

SpecTrim == Init /\ [][NextTrim]_vars
----------------------------------------------------------------------------
(* What trimming leaves *)

(* the reference position, counted from 1 within the segment, that slot i *)
(* belongs to: an insertion node belongs to the node before it            *)
PositionIndex(segment, i) == PositionSlotsBefore(segment, i + 1)

(* the slots of the positions numbered lo..hi, in the segment's order *)
SlotsOfPositions(segment, lo, hi) ==
    SelectSeq([i \in DOMAIN segment |-> <<PositionIndex(segment, i),
                                          segment[i]>>],
              LAMBDA slot : slot[1] >= lo /\ slot[1] <= hi)

SlotValues(indexed) == [i \in DOMAIN indexed |-> indexed[i][2]]

TrimmedSegment == ret.args[1]
TrimmedCount == ret.args[2]
Covered == PositionSlots(TrimmedSegment)

(* C28: for a segment covering k > n positions, remove_first_n_pos gives  *)
(* the segment without the slots of its first n positions and             *)
(* remove_last_n_pos the segment without the slots of its last n          *)
(* positions, insertion nodes going with their position, and both results *)
(* cover exactly k - n positions                                          *)
C28_TrimsWholePositions ==
    /\ ret.op = "remove_first_n_pos" /\ Covered > TrimmedCount
         => /\ ret.value = SlotValues(SlotsOfPositions(TrimmedSegment,
                                                  TrimmedCount + 1, Covered))
            /\ PositionSlots(ret.value) = Covered - TrimmedCount
    /\ ret.op = "remove_last_n_pos" /\ Covered > TrimmedCount
         => /\ ret.value = SlotValues(SlotsOfPositions(TrimmedSegment, 1,
                                                  Covered - TrimmedCount))
            /\ PositionSlots(ret.value) = Covered - TrimmedCount

(* the last two of four positions, the third with insertion nodes and an  *)
(* unobserved last one, have been taken off                               *)
C28_Witness ==
    /\ ret.op = "remove_last_n_pos"
    /\ TrimmedCount = 2
    /\ TrimmedSegment = PositionGroup(3, "n") \o PositionGroup(4, "i")
                          \o PositionGroup(5, "j") \o PositionGroup(6, ".")
    /\ ret.value = PositionGroup(3, "n") \o PositionGroup(4, "i")

----------------------------------------------------------------------------
(* Masking two neighbouring segments of a SegFreq(4, 2) *)

SegmentOf(pos, kinds) ==
    Concat([i \in DOMAIN kinds |-> PositionGroup(pos + i - 1, kinds[i])])

(* segments anchored at 1 and at 1 + segment_step *)
LeftPool == {SegmentOf(1, kinds) : kinds \in [1..4 -> {".", "n", "i"}]}
RightPool == {SegmentOf(3, kinds) : kinds \in [1..4 -> {"n", "i"}]}

(* the comparison get_patterns makes between neighbours, before and after *)
(* line 284 has masked both                                               *)
MaskPair ==
    /\ ret.op = "__init__"
    /\ \E left \in LeftPool, right \in RightPool :
      \E pos_start \in 1..MaxPos, pos_end \in 1..MaxPos :
        /\ pos_start <= pos_end
        /\ ret' = [op |-> "mask_segment",
                   args |-> <<left, right, pos_start, pos_end>>,
                   status |-> "ok",
                   value |-> <<is_continuous(left, right, 2),
                               is_continuous(
                                   mask_segment(left, pos_start, pos_end),
                                   mask_segment(right, pos_start, pos_end),
                                   2)>>]
        /\ UNCHANGED <<segment_size, segment_step, segments, max_segpos>>
        /\ UNCHANGED <<cda_vars, env_vars>>

NextMask == MaskPair

SpecMask == Init /\ [][NextMask]_vars
----------------------------------------------------------------------------
(* C29: two segments anchored segment_step apart that are continuous stay *)
(* continuous after mask_segment has masked both to [pos_start, pos_end], *)
(* also when one of them carries insertion nodes at positions outside the *)
(* range                                                                  *)
C29_AsStated ==
    ret.op = "mask_segment" /\ ret.value[1] = "True" => ret.value[2] = "True"

(* an insertion node of the segment lies outside the range, so masking    *)
(* turns it into a None slot of its own                                   *)
MasksInsertion(segment, pos_start, pos_end) ==
    \E i \in DOMAIN segment :
        /\ segment[i] # None
        /\ segment[i].bp > 0
        /\ ~(pos_start <= segment[i].pos /\ segment[i].pos <= pos_end)

(* where no insertion node is masked, continuity does survive masking *)
ContinuityKeptWithoutMaskedInsertions ==
    /\ ret.op = "mask_segment"
    /\ ret.value[1] = "True"
    /\ ~MasksInsertion(ret.args[1], ret.args[3], ret.args[4])
    /\ ~MasksInsertion(ret.args[2], ret.args[3], ret.args[4])
    => ret.value[2] = "True"

----------------------------------------------------------------------------
(* The range codonalign_consensus hands to codon_align                    *)
(* (codfreq/codonalign_consensus.py)                                      *)

(* assemble_alignment: first_aa starts at refsize // 3 and last_aa at 0;  *)
(* observed holds the aapos that have a codon counter                     *)
AssembledFirst(frag, observed) ==
    Min(observed \cup {(frag.refEnd - frag.refStart + 1) \div 3})

AssembledLast(observed) == Max(observed \cup {0})

SeqRefStart(frag, observed) == AssembledFirst(frag, observed) * 3 - 2
SeqRefEnd(observed) == AssembledLast(observed) * 3

(* cda_config.get(key, default) *)
CdaGet(cda_config, key, default) ==
    IF key \in DOMAIN cda_config THEN cda_config[key] ELSE default

(* lines 192-207: the entry's absolute positions made relative to the     *)
(* fragment, then cut to the observed span when the `if` lets them be     *)
CdaRange(frag, cda_config, seq_refstart, seq_refend) ==
    LET ref_offset == frag.refStart - 1
        refstart == CdaGet(cda_config, "refStart", frag.refStart) - ref_offset
        refend == CdaGet(cda_config, "refEnd", frag.refEnd) - ref_offset
    IN  IF refstart < seq_refend /\ refend > seq_refstart
        THEN <<Max({refstart, seq_refstart}), Min({refend, seq_refend})>>
        ELSE <<refstart, refend>>

(* `if not codon_align_config:` puts the fragment's own range in place of *)
(* a missing or empty list                                                *)
CodonAlignConfig(frag) ==
    IF frag.codonAlignment = <<>>
    THEN <<[refStart |-> frag.refStart, refEnd |-> frag.refEnd]>>
    ELSE frag.codonAlignment

(* the (refstart, refend) of every codon_align call made for the fragment *)
CdaRanges(frag, observed) ==
    IF AssembledLast(observed) = 0 THEN <<>>
    ELSE [i \in DOMAIN CodonAlignConfig(frag) |->
             CdaRange(frag, CodonAlignConfig(frag)[i],
                      SeqRefStart(frag, observed), SeqRefEnd(observed))]

(* fragments of FragmentCodons codons, at the start of the reference or   *)
(* further in                                                             *)
FragmentSpans ==
    {[refStart |-> s, refEnd |-> s + 3 * FragmentCodons - 1] : s \in {1, 7}}

RangePoints(span) ==
    {span.refStart + d : d \in {-2, 0, 3, 5, 8, 3 * FragmentCodons - 1,
                                3 * FragmentCodons + 1}}

CdaConfigs(span) ==
    UNION {{[refStart |-> s, refEnd |-> e] :
                e \in {x \in RangePoints(span) : x >= s}} :
            s \in RangePoints(span)}
    \cup {[refStart |-> s] : s \in RangePoints(span)}
    \cup {[refEnd |-> e] : e \in RangePoints(span)}

CdaConfigLists(span) ==
    {<<>>} \cup {<<c>> : c \in CdaConfigs(span)}
    \cup {<<c, d>> : c \in CdaConfigs(span),
                     d \in {[refStart |-> span.refStart + 3,
                             refEnd |-> span.refStart + 8]}}

CodonAlignRanges ==
    /\ ret.op = "__init__"
    /\ \E span \in FragmentSpans :
         \E config \in CdaConfigLists(span) :
           \E observed \in SUBSET (1..FragmentCodons) :
             LET frag == [refStart |-> span.refStart,
                          refEnd |-> span.refEnd,
                          codonAlignment |-> config]
             IN  ret' = [op |-> "codon_align",
                         args |-> <<frag, observed>>,
                         status |-> "ok",
                         value |-> CdaRanges(frag, observed)]
    /\ UNCHANGED <<segment_size, segment_step, segments, max_segpos>>
    /\ UNCHANGED <<cda_vars, env_vars>>

NextRange == CodonAlignRanges

SpecRange == Init /\ [][NextRange]_vars
----------------------------------------------------------------------------
(* C27: every (refstart, refend) handed to codon_align lies within        *)
(* [seq_refstart, seq_refend], the nucleotide span from the first to the  *)
(* last observed codon, also for an entry lying entirely outside the span *)
C27_AsStated ==
    ret.op = "codon_align" =>
        \A i \in DOMAIN ret.value :
            /\ SeqRefStart(ret.args[1], ret.args[2]) <= ret.value[i][1]
            /\ ret.value[i][2] <= SeqRefEnd(ret.args[2])

(* an entry sharing two or more nucleotides with the span is cut to it *)
Overlapping(frag, cda_config, observed) ==
    /\ CdaGet(cda_config, "refStart", frag.refStart) - frag.refStart + 1
           < SeqRefEnd(observed)
    /\ CdaGet(cda_config, "refEnd", frag.refEnd) - frag.refStart + 1
           > SeqRefStart(frag, observed)

OverlappingEntriesClamped ==
    ret.op = "codon_align" =>
        \A i \in DOMAIN ret.value :
            Overlapping(ret.args[1], CodonAlignConfig(ret.args[1])[i],
                        ret.args[2])
            => /\ SeqRefStart(ret.args[1], ret.args[2]) <= ret.value[i][1]
               /\ ret.value[i][2] <= SeqRefEnd(ret.args[2])

----------------------------------------------------------------------------
(* The task controller (lambda-controller/main.py), one task key.         *)
(* Every request is a Lambda invocation of its own: it reads taskmeta.json *)
(* from the bucket, works on what it read, and writes the object back.    *)
(* Nothing orders the reads and writes of different invocations, so a     *)
(* handler is one step up to its load_taskmeta and one step for its       *)
(* save_taskmeta.  The task has one ECS runner; logs says whether its log *)
(* stream holds the 'done' event.                                         *)

can_upload(data) == data.status = "created"
can_trigger(data) == data.status = "await-client-upload"
is_triggered(data) == data.status = "await-runner"

(* S3.put_object of the status and of the payload's finishedEcsTaskIds *)
save_taskmeta(status, finished) ==
    taskmeta' = [status |-> status, finished |-> finished]

(* an invocation that has passed its checks and not yet saved *)
Pending(handler, status, finished) ==
    [handler |-> handler, status |-> status, finished |-> finished]

Loaded(request) ==
    /\ Len(requests) < MaxRequests
    /\ requests' = Append(requests, request)
    /\ UNCHANGED <<taskmeta, logs>>

Saved(i, handler) ==
    /\ i \in DOMAIN requests
    /\ requests[i].handler = handler
    /\ save_taskmeta(requests[i].status, requests[i].finished)
    /\ requests' = [j \in 1..(Len(requests) - 1) |->
                       IF j < i THEN requests[j] ELSE requests[j + 1]]
    /\ UNCHANGED logs

(* create_task writes 'created' under a key of its own making *)
create_task ==
    /\ taskmeta.status = "none"
    /\ save_taskmeta("created", FALSE)
    /\ UNCHANGED <<requests, logs>>

(* direct_upload up to `if not can_upload(taskmeta)`; the payload it      *)
(* saves is {'fastqFiles': filenames}                                     *)
direct_upload_load ==
    /\ taskmeta.status # "none"
    /\ can_upload(taskmeta)
    /\ Loaded(Pending("direct_upload", "await-client-upload", FALSE))

direct_upload_save == \E i \in DOMAIN requests : Saved(i, "direct_upload")

(* trigger_runner up to ECS.run_task; it saves the payload it loaded with *)
(* the new task id added                                                  *)
trigger_runner_load ==
    /\ taskmeta.status # "none"
    /\ can_trigger(taskmeta)
    /\ Loaded(Pending("trigger_runner", "await-runner", taskmeta.finished))

trigger_runner_save == \E i \in DOMAIN requests : Saved(i, "trigger_runner")

(* fetch_runner_logs up to `payload['finishedEcsTaskIds'] = ...`: the     *)
(* status stays the one it loaded unless every runner is finished         *)
fetch_runner_logs_load ==
    /\ taskmeta.status # "none"
    /\ is_triggered(taskmeta)
    /\ Loaded(Pending("fetch_runner_logs",
                      IF taskmeta.finished \/ logs
                      THEN "success" ELSE taskmeta.status,
                      taskmeta.finished \/ logs))

fetch_runner_logs_save ==
    \E i \in DOMAIN requests : Saved(i, "fetch_runner_logs")

RunnerStarted ==
    \/ taskmeta.status \in {"await-runner", "success"}
    \/ \E i \in DOMAIN requests : requests[i].handler = "trigger_runner"

(* the runner writes its 'done' event *)
RunnerDone ==
    /\ RunnerStarted
    /\ ~logs
    /\ logs' = TRUE
    /\ UNCHANGED <<taskmeta, requests>>

other_vars == <<segfreq_vars, cda_vars, sidecar, writer>>

CreateTask == create_task /\ UNCHANGED other_vars
DirectUploadLoad == direct_upload_load /\ UNCHANGED other_vars
DirectUploadSave == direct_upload_save /\ UNCHANGED other_vars
TriggerRunnerLoad == trigger_runner_load /\ UNCHANGED other_vars
TriggerRunnerSave == trigger_runner_save /\ UNCHANGED other_vars
FetchRunnerLogsLoad == fetch_runner_logs_load /\ UNCHANGED other_vars
FetchRunnerLogsSave == fetch_runner_logs_save /\ UNCHANGED other_vars
RunnerFinishes == RunnerDone /\ UNCHANGED other_vars

NextController ==
    \/ CreateTask
    \/ DirectUploadLoad
    \/ DirectUploadSave
    \/ TriggerRunnerLoad
    \/ TriggerRunnerSave
    \/ FetchRunnerLogsLoad
    \/ FetchRunnerLogsSave
    \/ RunnerFinishes

SpecController == Init /\ [][NextController]_vars
----------------------------------------------------------------------------
StatusRank(status) ==
    CASE status = "none" -> 0
      [] status = "created" -> 1
      [] status = "await-client-upload" -> 2
      [] status = "await-runner" -> 3
      [] status = "success" -> 4

(* C30: under any interleaving of concurrent requests for one task, the   *)
(* stored status never moves backward in the order created,               *)
(* await-client-upload, await-runner, success                             *)
C30_AsStated ==
    [][StatusRank(taskmeta'.status) >= StatusRank(taskmeta.status)]_vars

====
